---- MODULE Spec2Model ----
(***************************************************************************)
(* A model of the dashboard: the /api/sync blob store (api/sync.ts), the   *)
(* App component's cloud sync and reset (src/App.tsx), the useLocalStorage *)
(* hook (src/hooks/useLocalStorage.ts, src/utils/storage.ts) and the       *)
(* dashboard grid (src/components/layout/DashboardGrid.tsx).               *)
(***************************************************************************)
EXTENDS Integers, Sequences, FiniteSets, TLC

(***************************************************************************)
(* JavaScript values.  A string-valued slot (a localStorage item, a field  *)
(* of the cloud document) holds a string or NULL; a request field that can *)
(* be of any type is a record [type, s, doc].                              *)
(***************************************************************************)
NULL == "<null>"

DataFields == {"todos", "readings", "bookmarks", "calendar"}

NoDoc == [todos |-> NULL, readings |-> NULL, bookmarks |-> NULL,
          calendar |-> NULL, bgImage |-> NULL]

JSUndefined == [type |-> "undefined", s |-> "", doc |-> NoDoc]
JSNull == [type |-> "null", s |-> "", doc |-> NoDoc]
JSString(x) == [type |-> "string", s |-> x, doc |-> NoDoc]
JSArray == [type |-> "array", s |-> "", doc |-> NoDoc]
JSObject(d) == [type |-> "object", s |-> "", doc |-> d]

\* typeof v
typeof(v) ==
    CASE v.type \in {"object", "array", "null"} -> "object"
      [] v.type = "string" -> "string"
      [] OTHER -> "undefined"

\* !v
Falsy(v) == v.type \in {"undefined", "null"} \/ (v.type = "string" /\ v.s = "")

(***************************************************************************)
(* api/sync.ts                                                             *)
(***************************************************************************)
UserIds == {"u1", "u2"}

\* (mutant) one key for every user
getUserKey_shared(userId) == "user:data"

\* Key format: user:{userId}:data
getUserKey(userId) == "user:" \o userId \o ":data"

RedisKeys == {getUserKey(u) : u \in UserIds}

\* The response of a handler run: the status, the "data" member of the JSON
\* body (JSUndefined when the body has none), the store afterwards and the
\* store call made ("none", "get" or "set").
Response(status, data, store, access) ==
    [status |-> status, data |-> data, store |-> store, access |-> access]

\* (mutant) POST stores whatever body it is given
handler_noBodyCheck(req, store, storeFails) ==
    IF req.method = "OPTIONS" THEN Response(200, JSUndefined, store, "none")
    ELSE IF Falsy(req.userId) \/ typeof(req.userId) # "string"
    THEN Response(400, JSUndefined, store, "none")
    ELSE LET key == getUserKey(req.userId.s) IN
      IF req.method = "GET" THEN
        IF storeFails THEN Response(500, JSUndefined, store, "get")
        ELSE IF Falsy(store[key]) THEN Response(404, JSNull, store, "get")
        ELSE Response(200, store[key], store, "get")
      ELSE IF req.method = "POST" THEN
        IF storeFails THEN Response(500, JSUndefined, store, "set")
        ELSE Response(200, JSUndefined, [store EXCEPT ![key] = req.body], "set")
      ELSE Response(405, JSUndefined, store, "none")

\* handler(req, res) on the store `store`; storeFails says that the store
\* call of this run, if it makes one, throws.
handler(req, store, storeFails) ==
    IF req.method = "OPTIONS" THEN Response(200, JSUndefined, store, "none")
    ELSE IF Falsy(req.userId) \/ typeof(req.userId) # "string"
    THEN Response(400, JSUndefined, store, "none")
    ELSE LET key == getUserKey(req.userId.s) IN
      IF req.method = "GET" THEN
        IF storeFails THEN Response(500, JSUndefined, store, "get")
        ELSE IF Falsy(store[key]) THEN Response(404, JSNull, store, "get")
        ELSE Response(200, store[key], store, "get")
      ELSE IF req.method = "POST" THEN
        IF Falsy(req.body) \/ typeof(req.body) # "object"
        THEN Response(400, JSUndefined, store, "none")
        ELSE IF storeFails THEN Response(500, JSUndefined, store, "set")
        ELSE Response(200, JSUndefined, [store EXCEPT ![key] = req.body], "set")
      ELSE Response(405, JSUndefined, store, "none")

(***************************************************************************)
(* JSON.  A JSON value is a record [kind, items, s]: an array of numbers,  *)
(* a string, an object with properties k<n>: <n>, or null.                 *)
(***************************************************************************)
JArr(items) == [kind |-> "array", items |-> items, s |-> ""]
JStr(x) == [kind |-> "string", items |-> <<>>, s |-> x]
JObj(props) == [kind |-> "object", items |-> props, s |-> ""]
JNull == [kind |-> "null", items |-> <<>>, s |-> ""]

MaxItem == 2
MaxLen == 1

Items == 1..MaxItem

RECURSIVE SeqsUpTo(_)
SeqsUpTo(n) ==
    IF n = 0 THEN {<<>>}
    ELSE LET shorter == SeqsUpTo(n - 1) IN
         shorter \cup {Append(q, i) : q \in {r \in shorter : Len(r) = n - 1}, i \in Items}

DEFAULT_BG == "/macos-wallpaper.jpg"
BgStrings == {DEFAULT_BG, "", " ", "a.jpg", "b.jpg"}

JSONValues ==
    {JArr(q) : q \in SeqsUpTo(MaxLen)} \cup {JStr(x) : x \in BgStrings}
        \cup {JObj(q) : q \in SeqsUpTo(1)} \cup {JNull}

NumStr(n) ==
    CASE n = 0 -> "0" [] n = 1 -> "1" [] n = 2 -> "2" [] n = 3 -> "3" [] n = 4 -> "4"
      [] n = 5 -> "5" [] n = 6 -> "6" [] n = 7 -> "7" [] n = 8 -> "8" [] OTHER -> "9"

RECURSIVE JoinNums(_)
JoinNums(q) ==
    IF q = <<>> THEN ""
    ELSE IF Len(q) = 1 THEN NumStr(q[1])
    ELSE NumStr(q[1]) \o "," \o JoinNums(Tail(q))

RECURSIVE JoinProps(_)
JoinProps(q) ==
    IF q = <<>> THEN ""
    ELSE LET p == "\"k" \o NumStr(q[1]) \o "\":" \o NumStr(q[1]) IN
         IF Len(q) = 1 THEN p ELSE p \o "," \o JoinProps(Tail(q))

\* JSON.stringify(v)
JSONstringify(v) ==
    CASE v.kind = "array" -> "[" \o JoinNums(v.items) \o "]"
      [] v.kind = "string" -> "\"" \o v.s \o "\""
      [] v.kind = "object" -> "{" \o JoinProps(v.items) \o "}"
      [] OTHER -> "null"

\* JSON.parse(text) returns a value exactly when text is the serialisation of
\* one; otherwise it throws.
JSONparses(text) == \E v \in JSONValues : JSONstringify(v) = text
JSONparse(text) == CHOOSE v \in JSONValues : JSONstringify(v) = text

(***************************************************************************)
(* src/utils/storage.ts and src/hooks/useLocalStorage.ts                   *)
(***************************************************************************)
DataKeys == {"todos", "readings", "bookmarks", "calendar-events"}
BG_KEY == "dashboard_bg_image"
LSKeys == DataKeys \cup {BG_KEY}

\* saveToStorage(key, data): setItem throws when the quota is exceeded, and
\* the error is caught and logged.
saveToStorage(key, data, ls, quotaExceeded) ==
    IF quotaExceeded THEN ls ELSE [ls EXCEPT ![key] = JSONstringify(data)]

\* getFromStorage(key): the parsed item, or null when there is none or it
\* does not parse.
getFromStorage(key, ls) ==
    IF ls[key] = NULL THEN JNull
    ELSE IF JSONparses(ls[key]) THEN JSONparse(ls[key])
    ELSE JNull

\* The initial values the components pass to useLocalStorage.
initialValue(key) == IF key = BG_KEY THEN JStr(DEFAULT_BG) ELSE JArr(<<>>)

\* (mutant) the stored item is not read
useLocalStorageInit_fresh(key, ls) == initialValue(key)

\* useState(() => ...) of useLocalStorage
useLocalStorageInit(key, ls) ==
    LET item == getFromStorage(key, ls) IN
    IF item # JNull THEN item ELSE initialValue(key)

\* The values of T the components set: item lists, and the background string.
TValues(key) ==
    IF key = BG_KEY THEN {JStr(x) : x \in BgStrings}
    ELSE {JArr(q) : q \in SeqsUpTo(MaxLen)}

\* The updater functions passed to setValue: prev => [...prev, item] and
\* prev => prev.filter(...).
Updaters == {"push", "filter"}
ApplyUpdater(f, cur) ==
    IF f = "push" THEN JArr(Append(cur.items, 1))
    ELSE JArr(SelectSeq(cur.items, LAMBDA i : i # 1))

\* setStoredValue(currentValue => value instanceof Function ? value(currentValue) : value)
setValue(isFunction, value, currentValue) ==
    IF isFunction THEN ApplyUpdater(value, currentValue) ELSE value

(***************************************************************************)
(* src/App.tsx: the layouts, and src/components/layout/DashboardGrid.tsx   *)
(***************************************************************************)
\* minW: undefined
UNDEF == 0 - 1

LayoutDef(i, x, y, w, h, minW, minH) ==
    [i |-> i, x |-> x, y |-> y, w |-> w, h |-> h, minW |-> minW, minH |-> minH]

\* Desktop layout - side by side widgets
desktopLayout ==
    << LayoutDef("calendar", 0, 0, 6, 6, 4, 4),
       LayoutDef("todo", 6, 0, 3, 6, 3, 3),
       LayoutDef("reading", 9, 0, 3, 6, 2, 2),
       LayoutDef("bookmark", 0, 6, 12, 2, 4, 2) >>

defaultLayout == desktopLayout

Breakpoints == {"lg", "md", "sm", "xs"}

\* item.h || 4
OrFour(h) == IF h = 0 \/ h = UNDEF THEN 4 ELSE h

\* generateResponsiveLayouts(baseLayout)
generateResponsiveLayouts(baseLayout) ==
    [bp \in Breakpoints |->
        IF bp \in {"lg", "md"} THEN baseLayout
        ELSE [idx \in DOMAIN baseLayout |->
                [baseLayout[idx] EXCEPT !.w = IF bp = "sm" THEN 6 ELSE 4,
                                        !.x = 0,
                                        !.y = (idx - 1) * OrFour(baseLayout[idx].h),
                                        !.minW = UNDEF]]]

\* const responsiveLayouts = useMemo(() => generateResponsiveLayouts(defaultLayout), ...)
responsiveLayouts == generateResponsiveLayouts(defaultLayout)

\* DashboardGrid.tsx, handleLayoutChange: the layouts handed to
\* setSavedLayouts, a copy of every breakpoint's layout.
handleLayoutChange_v2(allLayouts) ==
    [bp \in DOMAIN allLayouts |->
        [idx \in DOMAIN allLayouts[bp] |->
            LET item == allLayouts[bp][idx] IN
            LayoutDef(item.i, item.x, item.y, item.w, item.h, item.minW, item.minH)]]

\* JSON.stringify of the saved layouts leaves out the members that are
\* undefined; the stored text is modelled by the tree it denotes.
StringifyLayouts(layouts) ==
    [bp \in DOMAIN layouts |->
        [idx \in DOMAIN layouts[bp] |->
            LET item == layouts[bp][idx] IN
            [f \in {g \in DOMAIN item : g = "i" \/ item[g] # UNDEF} |-> item[f]]]]

\* JSON.parse of that text: a member left out reads as undefined.
Member(item, f) == IF f \in DOMAIN item THEN item[f] ELSE UNDEF

ParseLayouts(tree) ==
    [bp \in DOMAIN tree |->
        [idx \in DOMAIN tree[bp] |->
            LET item == tree[bp][idx] IN
            LayoutDef(item.i, Member(item, "x"), Member(item, "y"), Member(item, "w"),
                      Member(item, "h"), Member(item, "minW"), Member(item, "minH"))]]

\* The item under the grid's key ('dashboard-layouts-v2', 'dashboard-layouts-v7'):
\* none, or a text.
NoItem == [present |-> FALSE, tree |-> <<>>]
ItemOf(layouts) == [present |-> TRUE, tree |-> StringifyLayouts(layouts)]

\* useLocalStorage(key, {}) of the grid: the initial state
savedLayoutsInit(item) == IF item.present THEN ParseLayouts(item.tree) ELSE <<>>

(***************************************************************************)
(* src/unnamed/part_004: the DashboardGrid that takes mobileLayout and     *)
(* keeps its layouts under 'dashboard-layouts-v7'                          *)
(***************************************************************************)
\* Mobile layout - stacked vertically, each widget takes full width
mobileLayout ==
    << LayoutDef("calendar", 0, 0, 12, 5, 12, 4),
       LayoutDef("todo", 0, 5, 12, 5, 12, 3),
       LayoutDef("reading", 0, 10, 12, 4, 12, 2),
       LayoutDef("bookmark", 0, 14, 12, 3, 12, 2) >>

MAX_ROWS == 8

Min(a, b) == IF a <= b THEN a ELSE b

\* addConstraints(layout)
addConstraints(layout) ==
    [idx \in DOMAIN layout |->
        [layout[idx] EXCEPT !.y = Min(layout[idx].y, MAX_ROWS - layout[idx].h),
                            !.h = Min(layout[idx].h, MAX_ROWS - layout[idx].y)]]

\* savedLayouts.lg || defaultLayout
SavedOrDefault(saved, bp) == IF bp \in DOMAIN saved THEN saved[bp] ELSE defaultLayout

\* initLayouts()
initLayouts(saved) ==
    LET mobileL == mobileLayout IN
    IF DOMAIN saved # {}
    THEN [bp \in Breakpoints |->
            IF bp \in {"lg", "md"} THEN addConstraints(SavedOrDefault(saved, bp))
            ELSE mobileL]
    ELSE [bp \in Breakpoints |->
            IF bp \in {"lg", "md"} THEN addConstraints(defaultLayout) ELSE mobileL]

\* part_004, handleLayoutChange: the layouts handed to setSavedLayouts, every
\* item constrained to the grid bounds.
handleLayoutChange_v7(allLayouts) ==
    [bp \in DOMAIN allLayouts |->
        [idx \in DOMAIN allLayouts[bp] |->
            LET item == allLayouts[bp][idx] IN
            LayoutDef(item.i, item.x, Min(item.y, MAX_ROWS - item.h), item.w,
                      Min(item.h, MAX_ROWS - item.y), item.minW, item.minH)]]

(***************************************************************************)
(* src/api/kakao/[...path].ts: the places-search proxy                     *)
(***************************************************************************)
\* The headers of a response: name -> value
NoHeaders == [h \in {} |-> ""]

CorsHeaders ==
    [h \in {"Access-Control-Allow-Origin", "Access-Control-Allow-Methods",
            "Access-Control-Allow-Headers"} |->
        IF h = "Access-Control-Allow-Origin" THEN "*"
        ELSE IF h = "Access-Control-Allow-Methods" THEN "GET, POST, OPTIONS"
        ELSE "Authorization, Content-Type"]

\* Array.isArray(path) ? path.join('/') : path || ''
pathString(path) ==
    IF path.type = "array" THEN path.s
    ELSE IF Falsy(path) THEN ""
    ELSE path.s

\* What the upstream call does: fetch rejects, or it resolves with a status
\* and a body that response.json() parses or throws on.
Upstreams ==
    {[kind |-> "rejects", status |-> 0, body |-> ""]}
        \cup {[kind |-> k, status |-> st, body |-> IF k = "json" THEN "{documents}" ELSE "<html>"] :
                k \in {"json", "notjson"}, st \in {200, 400, 401}}

\* handler(req, res) of the proxy: the url it fetches and the response it sends
kakaoHandler(req, upstream) ==
    LET url == "https://dapi.kakao.com/" \o pathString(req.path)
                  \o (IF req.query # "" THEN "?query=" \o req.query ELSE "")
        \* req.headers.authorization as string || ''
        authorization == IF Falsy(req.authorization) THEN "" ELSE req.authorization.s IN
    IF upstream.kind = "json"
    THEN [url |-> url, authorization |-> authorization, status |-> upstream.status,
          body |-> upstream.body, headers |-> CorsHeaders]
    ELSE [url |-> url, authorization |-> authorization, status |-> 500,
          body |-> "{error}", headers |-> NoHeaders]

NoProxied == [method |-> "", path |-> "", upstream |-> "", status |-> 0, body |-> "",
              url |-> "", authorization |-> "", headers |-> NoHeaders]

(***************************************************************************)
(* src/unnamed/part_002: TodoWidget.  A todo is a record; subTodos is a    *)
(* sequence of todos (undefined and [] are both the empty sequence);       *)
(* lastCompletedDate is <<>> when unset and <<d>> for the day d.           *)
(***************************************************************************)
TodoItem(id, recurring) ==
    [id |-> id, completed |-> FALSE, recurring |-> recurring, lastCompletedDate |-> <<>>,
     isExpanded |-> FALSE, subTodos |-> <<>>]

\* null, where a TodoItem is expected
NoTodo == [id |-> 0]

\* item.recurring && item.recurring !== 'none'
IsRecurring(item) == item.recurring # "none"

\* The updaters the handlers pass to updateTodoInTree
ApplyTodoUpdater(kind, arg, item) ==
    CASE kind = "toggle" ->
            IF ~item.completed /\ IsRecurring(item)
            THEN [item EXCEPT !.completed = TRUE, !.lastCompletedDate = <<arg>>]
            ELSE [item EXCEPT !.completed = ~item.completed]
      [] kind = "edit" -> [item EXCEPT !.recurring = arg]
      [] OTHER -> NoTodo

\* updateTodoInTree(items, id, updater)
RECURSIVE updateTodoInTree(_, _, _, _)
updateTodoInTree(items, id, kind, arg) ==
    IF items = <<>> THEN <<>>
    ELSE LET item == Head(items)
             rest == updateTodoInTree(Tail(items), id, kind, arg) IN
         IF item.id = id
         THEN LET updated == ApplyTodoUpdater(kind, arg, item) IN
              IF updated = NoTodo THEN rest ELSE <<updated>> \o rest
         ELSE <<[item EXCEPT !.subTodos = updateTodoInTree(item.subTodos, id, kind, arg)]>>
                 \o rest

\* addSubTaskToTree(items), of handleModalSubmit
RECURSIVE addSubTaskToTree(_, _, _)
addSubTaskToTree(items, parentTodoId, newTodo) ==
    [idx \in DOMAIN items |->
        LET item == items[idx] IN
        IF item.id = parentTodoId
        THEN [item EXCEPT !.subTodos = Append(item.subTodos, newTodo), !.isExpanded = TRUE]
        ELSE [item EXCEPT !.subTodos = addSubTaskToTree(item.subTodos, parentTodoId, newTodo)]]

\* toggleInTree(items), of toggleSubTasks
RECURSIVE toggleInTree(_, _)
toggleInTree(items, todoId) ==
    [idx \in DOMAIN items |->
        LET item == items[idx] IN
        IF item.id = todoId THEN [item EXCEPT !.isExpanded = ~item.isExpanded]
        ELSE [item EXCEPT !.subTodos = toggleInTree(item.subTodos, todoId)]]

\* syncCompletionStatus(items)
RECURSIVE syncCompletionStatus(_)
syncCompletionStatus(items) ==
    [idx \in DOMAIN items |->
        LET item == items[idx] IN
        IF Len(item.subTodos) > 0
        THEN LET subs == syncCompletionStatus(item.subTodos)
                 allCompleted == \A i \in DOMAIN subs : subs[i].completed IN
             IF item.completed # allCompleted
             THEN [item EXCEPT !.subTodos = subs, !.completed = allCompleted,
                               !.isExpanded = IF allCompleted THEN FALSE ELSE item.isExpanded]
             ELSE [item EXCEPT !.subTodos = subs]
        ELSE item]

\* The last element of a sequence of todos that is not null, or null
RECURSIVE LastFound(_)
LastFound(found) ==
    IF found = <<>> THEN NoTodo
    ELSE IF found[Len(found)] # NoTodo THEN found[Len(found)]
    ELSE LastFound(SubSeq(found, 1, Len(found) - 1))

\* findAndRemove(items), of handleDrop: the items without the source, and
\* the source (removed) as the closure's variable is last assigned
RECURSIVE findAndRemove(_, _)
findAndRemove(items, sourceId) ==
    LET here == SelectSeq(items, LAMBDA item : item.id = sourceId)
        kept == SelectSeq(items, LAMBDA item : item.id # sourceId)
        below == [idx \in DOMAIN kept |-> findAndRemove(kept[idx].subTodos, sourceId)]
        inSubs == LastFound([idx \in DOMAIN kept |-> below[idx].removed]) IN
    [items |-> [idx \in DOMAIN kept |-> [kept[idx] EXCEPT !.subTodos = below[idx].items]],
     removed |-> IF inSubs # NoTodo THEN inSubs ELSE LastFound(here)]

\* addAsSubTask(items), of handleDrop
RECURSIVE addAsSubTask(_, _, _)
addAsSubTask(items, targetId, removed) ==
    [idx \in DOMAIN items |->
        LET item == items[idx] IN
        IF item.id = targetId
        THEN [item EXCEPT !.subTodos = Append(item.subTodos, [removed EXCEPT !.subTodos = <<>>]),
                          !.isExpanded = TRUE]
        ELSE [item EXCEPT !.subTodos = addAsSubTask(item.subTodos, targetId, removed)]]

\* handleDrop(e, targetId, depth) on the todos of the render: whether it
\* calls setTodos, and with what
handleDrop(items, sourceId, targetId, depth) ==
    LET found == findAndRemove(items, sourceId) IN
    IF sourceId = targetId \/ depth > 0 THEN [set |-> FALSE, todos |-> items]
    ELSE IF found.removed = NoTodo THEN [set |-> FALSE, todos |-> items]
    ELSE [set |-> TRUE,
          todos |-> syncCompletionStatus(addAsSubTask(found.items, targetId, found.removed))]

\* moveToRoot(items), of the list's onDrop
RECURSIVE moveToRoot(_, _)
moveToRoot(items, sourceId) ==
    LET one(item) ==
            IF Len(item.subTodos) > 0
            THEN LET foundInSub == SelectSeq(item.subTodos, LAMBDA t : t.id = sourceId) IN
                 IF foundInSub # <<>>
                 THEN [item |-> [item EXCEPT !.subTodos =
                                    SelectSeq(item.subTodos, LAMBDA t : t.id # sourceId)],
                       moved |-> foundInSub[1]]
                 ELSE LET result == moveToRoot(item.subTodos, sourceId) IN
                      [item |-> [item EXCEPT !.subTodos = result.items],
                       moved |-> result.moved]
            ELSE [item |-> item, moved |-> NoTodo]
        all == [idx \in DOMAIN items |-> one(items[idx])] IN
    [items |-> [idx \in DOMAIN items |-> all[idx].item],
     moved |-> LastFound([idx \in DOMAIN items |-> all[idx].moved])]

\* onDrop of the list: whether it calls setTodos, and with what
listOnDrop(items, sourceId) ==
    LET result == moveToRoot(items, sourceId) IN
    IF result.moved = NoTodo THEN [set |-> FALSE, todos |-> items]
    ELSE [set |-> TRUE, todos |-> syncCompletionStatus(Append(result.items, result.moved))]

\* The ids of the todos that renderTodoTree wraps around todo id, innermost
\* first and ending with id itself when it is at the root: the wrappers a
\* drop on id bubbles through, each with its depth.
RECURSIVE WrappersOf(_, _, _)
WrappersOf(items, id, depth) ==
    IF items = <<>> THEN <<>>
    ELSE LET item == Head(items)
             inside == WrappersOf(item.subTodos, id, depth + 1) IN
         IF item.id = id THEN <<[id |-> id, depth |-> depth]>>
         ELSE IF inside # <<>> THEN Append(inside, [id |-> item.id, depth |-> depth])
         ELSE WrappersOf(Tail(items), id, depth)

\* The drop handlers of one drop event run in turn on the todos of the same
\* render; each setTodos(value) replaces the one before.  sofar is the last
\* setTodos of the handlers that have run.
RECURSIVE DropBubbles(_, _, _, _)
DropBubbles(items, sourceId, wrappers, sofar) ==
    IF wrappers = <<>>
    THEN LET last == listOnDrop(items, sourceId) IN
         IF last.set THEN last ELSE sofar
    ELSE LET r == handleDrop(items, sourceId, wrappers[1].id, wrappers[1].depth) IN
         DropBubbles(items, sourceId, Tail(wrappers), IF r.set THEN r ELSE sofar)

\* Every todo of the tree, whatever its depth
RECURSIVE AllTodos(_)
AllTodos(items) ==
    IF items = <<>> THEN {}
    ELSE {Head(items)} \cup AllTodos(Head(items).subTodos) \cup AllTodos(Tail(items))

VARIABLES
    redis,          \* the key-value store behind /api/sync: key -> value, JSNull when unset
    resp,           \* the last request /api/sync served, with its response
    posted,         \* user id -> the body of the last POST answered 200 (JSNull: none)
    localStorage,   \* key -> item text, NULL when there is no item
    hooks,          \* key -> the state of the useLocalStorage hook on that key
    pendingEffects, \* the keys whose "update localStorage" effect has yet to run
    page,           \* "live" once mounted, "reloading" before the (next) mount
    hookKeys,       \* the keys the page's components call useLocalStorage with
    hookLog,        \* key -> writeOk: the effect's last write was stored;
                    \*        prev, clean: the hook's value when the page last went
                    \*        away, and whether its effects had run and stored it
    user,           \* the id of the user Privy has authenticated, NULL when none
    sessionStorage, \* the item 'cloud-loaded' of sessionStorage, NULL when none
    syncStatus,     \* App's state syncStatus
    hasLoadedFromCloud, \* App's state hasLoadedFromCloud
    requests,       \* the fetches of /api/sync in flight, with their closures
    autoLoad,       \* "none", "started", "completed": the automatic loads so far
    resetPending,   \* the page is reloading after confirmReset
    grid,           \* the DashboardGrid of the build: "v2" or "v7"
    layoutItem,     \* the localStorage item under the grid's key
    savedLayouts,   \* the state of the grid's useLocalStorage hook
    gridLayouts,    \* the layouts ResponsiveGridLayout displays, by breakpoint
    width,          \* the window: "wide", "medium" or "narrow"
    moves,          \* the number of drags and resizes so far
    kakao,          \* the last request the places-search proxy served, with its response
    todos,          \* TodoWidget: the value of useLocalStorage('todos', [])
    parentTodoId,   \* TodoWidget's state parentTodoId, 0 for null
    isModalOpen,    \* TodoWidget's state isModalOpen
    clock,          \* the time, in hours of local time since a local midnight
    tz,             \* the browser's time zone: local time minus UTC, in hours
    completedAt,    \* todo id -> the clock when the user last checked it as a
                    \*            recurring todo, -1 when never, or unchecked or
                    \*            edited since (history)
    bookmarks,      \* BookmarkWidget: the value of useLocalStorage('bookmarks', [])
    draggedId,      \* BookmarkWidget's state draggedId, 0 for null
    dataTransfer,   \* the id in the dataTransfer of the drag in progress, 0: no drag
    editMode,       \* BookmarkWidget's state editMode
    folderPreviewTarget, \* BookmarkWidget's state folderPreviewTarget, 0 for null
    folderHoverTimer, \* the ref folderHoverTimer: id, the target the timeout was set
                    \* for (0: the ref is null), and whether the timeout is pending
    lastHoverTarget, \* the ref lastHoverTarget, 0 for null
    expandedFolder, \* the id of BookmarkWidget's state expandedFolder, 0 for null
    dateNow,        \* Date.now() of the next bookmark or folder made
    pointer,        \* where the last dragover of the drag was: over an item or over
                    \* the gap, and how far down the item (history)
    events,         \* CalendarWidget: the value of useLocalStorage('calendar-events', [])
    calendarTodos,  \* CalendarWidget: the value of its useLocalStorage('todos', [])
    selectedRange,  \* CalendarWidget's state selectedRange, NoRange for null
    editingEvent,   \* CalendarWidget's state editingEvent, NoEvent for undefined
    dragStart,      \* CalendarWidget's state dragStart, NoDate for null
    dragEnd,        \* CalendarWidget's state dragEnd, NoDate for null
    dragHasLeftColumn, \* CalendarWidget's state dragHasLeftColumn
    viewDate,       \* CalendarWidget's state viewDate, NoDate for null
    readings,       \* ReadingWidget: the value of useLocalStorage('readings', [])
    activeSwipe,    \* ReadingWidget's state activeSwipe, NoSwipe for null
    activeSwipeRef, \* the ref activeSwipeRef, NoSwipe for null
    dismissing,     \* ReadingWidget's state dismissing, NoDismissing for null
    swipeStartRef,  \* the ref swipeStartRef, NoStart for null
    timeouts,       \* the timeouts processEnd has set and that have yet to fire:
                    \* the card's id and the time left
    readingNow,     \* Date.now() of the next reading made
    gesture         \* the gesture in progress: its card, where it started, where
                    \* the pointer is, and its first decisive movement (history)

serverVars == <<redis, resp, posted>>
hookVars == <<localStorage, hooks, pendingEffects, page, hookKeys, hookLog>>
appVars == <<user, sessionStorage, syncStatus, hasLoadedFromCloud, requests, autoLoad,
             resetPending>>
gridVars == <<grid, layoutItem, savedLayouts, gridLayouts, width, moves>>
dashVars == <<serverVars, hookVars, appVars, gridVars>>
proxyVars == <<kakao>>
todoVars == <<todos, parentTodoId, isModalOpen, clock, tz, completedAt>>
bookmarkVars == <<bookmarks, draggedId, dataTransfer, editMode, folderPreviewTarget,
                  folderHoverTimer, lastHoverTarget, expandedFolder, dateNow, pointer>>
calendarVars == <<events, calendarTodos, selectedRange, editingEvent, dragStart, dragEnd,
                  dragHasLeftColumn, viewDate>>
readingVars == <<readings, activeSwipe, activeSwipeRef, dismissing, swipeStartRef,
                 timeouts, readingNow, gesture>>
widgetVars == <<proxyVars, todoVars, bookmarkVars, calendarVars, readingVars>>
exceptProxy == <<dashVars, todoVars, bookmarkVars, calendarVars, readingVars>>
exceptTodo == <<dashVars, proxyVars, bookmarkVars, calendarVars, readingVars>>
exceptBookmark == <<dashVars, proxyVars, todoVars, calendarVars, readingVars>>
exceptCalendar == <<dashVars, proxyVars, todoVars, bookmarkVars, readingVars>>
exceptReading == <<dashVars, proxyVars, todoVars, bookmarkVars, calendarVars>>
vars == <<dashVars, widgetVars>>

\* Nobody is logged in, nothing is in flight, and no grid is mounted.
IdleDashboard ==
    /\ user = NULL
    /\ sessionStorage = NULL
    /\ syncStatus = "idle"
    /\ hasLoadedFromCloud = FALSE
    /\ requests = <<>>
    /\ autoLoad = "none"
    /\ resetPending = FALSE
    /\ layoutItem = NoItem
    /\ savedLayouts = <<>>
    /\ gridLayouts = <<>>
    /\ width = "wide"
    /\ moves = 0

\* The proxy has served nothing
IdleProxy == kakao = NoProxied

\* No TodoWidget is mounted
IdleTodo ==
    /\ todos = <<>>
    /\ parentTodoId = 0
    /\ isModalOpen = FALSE
    /\ clock = 0
    /\ tz = 0
    /\ completedAt = <<>>

\* No timeout is set: folderHoverTimer.current is null
NoTimer == [id |-> 0, pending |-> FALSE]

\* No dragover yet
NoPointer == [target |-> 0, gap |-> FALSE, y |-> 0]

\* No BookmarkWidget is mounted
IdleBookmark ==
    /\ bookmarks = <<>>
    /\ draggedId = 0
    /\ dataTransfer = 0
    /\ editMode = FALSE
    /\ folderPreviewTarget = 0
    /\ folderHoverTimer = NoTimer
    /\ lastHoverTarget = 0
    /\ expandedFolder = 0
    /\ dateNow = 1
    /\ pointer = NoPointer

\* null or undefined, for a date, a selection and an event
NoDate == 0
NoRange == [type |-> "null"]
NoEvent == [id |-> 0]

\* No CalendarWidget is mounted
IdleCalendar ==
    /\ events = <<>>
    /\ calendarTodos = <<>>
    /\ selectedRange = NoRange
    /\ editingEvent = NoEvent
    /\ dragStart = NoDate
    /\ dragEnd = NoDate
    /\ dragHasLeftColumn = FALSE
    /\ viewDate = NoDate

\* null, for activeSwipe, dismissing and swipeStartRef.current
NoSwipe == [id |-> 0]
NoDismissing == [id |-> 0]
NoStart == [id |-> 0]

\* No gesture yet
NoGesture == [id |-> 0, first |-> "none"]

\* No card has been touched
ReadingAtRest ==
    /\ activeSwipe = NoSwipe
    /\ activeSwipeRef = NoSwipe
    /\ dismissing = NoDismissing
    /\ swipeStartRef = NoStart
    /\ timeouts = {}
    /\ gesture = NoGesture

\* No ReadingWidget is mounted
IdleReading ==
    /\ readings = <<>>
    /\ readingNow = 1
    /\ ReadingAtRest

\* Neither the calendar nor the reading list is mounted
IdleCalendarAndReading == IdleCalendar /\ IdleReading

InitIdle ==
    /\ IdleDashboard
    /\ IdleProxy
    /\ IdleTodo
    /\ IdleBookmark
    /\ IdleCalendarAndReading

(***************************************************************************)
(* Requests to /api/sync.  The caller is the user the request is           *)
(* authenticated as (NULL: nobody); the handler never looks at it.         *)
(***************************************************************************)
Callers == UserIds \cup {NULL}
Methods == {"GET", "POST", "OPTIONS", "PUT"}
QueryUserIds == {JSUndefined, JSArray, JSString("")} \cup {JSString(u) : u \in UserIds}

DocOnes == [todos |-> "[1]", readings |-> "[1]", bookmarks |-> "[1]",
            calendar |-> "[1]", bgImage |-> "a.jpg"]
DocTwos == [todos |-> "[2]", readings |-> NULL, bookmarks |-> "[2]",
            calendar |-> "[2]", bgImage |-> "b.jpg"]
PostedDocs == {DocOnes, DocTwos}
Bodies == {JSNull, JSString("x"), JSArray} \cup {JSObject(d) : d \in PostedDocs}

\* One run of the handler on the store, and what it leaves in resp and posted.
Serve(caller, req, storeFails) ==
    LET r == handler(req, redis, storeFails) IN
    /\ redis' = r.store
    /\ resp' = [caller |-> caller, method |-> req.method, userId |-> req.userId,
                bodyType |-> IF req.method = "POST" THEN req.body.type ELSE "undefined",
                failed |-> (storeFails /\ r.access # "none"),
                status |-> r.status, data |-> r.data, access |-> r.access,
                found |-> (req.userId.type = "string" /\ req.userId.s \in UserIds
                             /\ ~Falsy(redis[getUserKey(req.userId.s)])),
                changed |-> (r.store # redis)]
    /\ posted' = IF req.method = "POST" /\ r.status = 200
                 THEN [posted EXCEPT ![req.userId.s] = req.body]
                 ELSE posted

ServeRequest ==
    \E caller \in Callers, m \in Methods, u \in QueryUserIds, b \in Bodies, f \in BOOLEAN :
        /\ Serve(caller, [method |-> m, userId |-> u, body |-> b], f)
        /\ UNCHANGED <<hookVars, appVars, gridVars, widgetVars>>

NoResponse == [caller |-> NULL, method |-> "", userId |-> JSUndefined,
               bodyType |-> "undefined", failed |-> FALSE,
               status |-> 0, data |-> JSUndefined, access |-> "none",
               found |-> FALSE, changed |-> FALSE]

InitServer ==
    /\ redis = [k \in RedisKeys |-> JSNull]
    /\ resp = NoResponse
    /\ posted = [u \in UserIds |-> JSNull]

NoLog == [writeOk |-> FALSE, prev |-> JNull, clean |-> FALSE]

\* The dashboard before anything is mounted, nobody logged in
InitDashboard ==
    /\ InitServer
    /\ IdleDashboard
    /\ grid = "v7"
    /\ localStorage = [k \in LSKeys |-> NULL]
    /\ hooks = [k \in LSKeys |-> initialValue(k)]
    /\ pendingEffects = {}
    /\ page = "reloading"
    /\ hookKeys = LSKeys
    /\ hookLog = [k \in LSKeys |-> NoLog]

InitSync ==
    /\ InitDashboard
    /\ IdleProxy
    /\ IdleTodo
    /\ IdleBookmark
    /\ IdleCalendarAndReading

NextSync == ServeRequest

SpecSync == InitSync /\ [][NextSync]_vars

\* resp answers a request whose userId passes the handler's check
ValidUserId == resp.userId.type = "string" /\ resp.userId.s # ""

\* C1 (as claimed): a GET or POST on /api/sync for user id U is answered 200
\* only when the caller is authenticated as U.
C1_ServedOnlyToOwner ==
    (resp.method \in {"GET", "POST"} /\ resp.status = 200)
        => (resp.caller # NULL /\ resp.userId.s = resp.caller)

\* C4 (as claimed): once a POST for U with body D was answered 200, every GET
\* for U is answered 200 with data D until the next such POST for U, whatever
\* is posted for other user ids.
C4_RoundTrip ==
    \A u \in UserIds :
        (resp.method = "GET" /\ resp.userId = JSString(u) /\ posted[u] # JSNull)
            => (resp.status = 200 /\ resp.data = posted[u])

\* C4 (amended): once a POST for U with body D was answered 200, every GET for
\* U whose store read succeeds is answered 200 with data D until the next such
\* POST for U, whatever is posted for other user ids; a GET whose store read
\* throws is answered 500 without data.
C4_RoundTripUnlessStoreFails ==
    \A u \in UserIds :
        (resp.method = "GET" /\ resp.userId = JSString(u) /\ posted[u] # JSNull)
            => IF resp.failed
               THEN resp.status = 500 /\ resp.data = JSUndefined
               ELSE resp.status = 200 /\ resp.data = posted[u]

\* A GET for u1 answered with u1's document while u2 has posted another one.
C4_Witness ==
    /\ resp.method = "GET" /\ resp.userId = JSString("u1") /\ resp.status = 200
    /\ posted["u2"] # JSNull /\ posted["u2"] # posted["u1"]

\* C9: OPTIONS is answered 200 without a store call.  For any other method, in
\* the order the handler checks: a missing or non-string userId gives 400; a
\* GET finding no document gives 404 with data null; a POST whose body is not
\* an object gives 400; a method other than GET and POST gives 405; a store
\* call that throws gives 500.  Every answer of 400 or above leaves the store
\* as it was.
C9_ErrorStatuses ==
    resp.status # 0 =>
        /\ resp.method = "OPTIONS"
              => (resp.status = 200 /\ resp.access = "none" /\ ~resp.changed)
        /\ (resp.method # "OPTIONS" /\ ~ValidUserId) => resp.status = 400
        /\ (resp.method = "GET" /\ ValidUserId /\ ~resp.failed /\ ~resp.found)
              => (resp.status = 404 /\ resp.data = JSNull)
        /\ (resp.method = "POST" /\ ValidUserId /\ resp.bodyType \notin {"object", "array"})
              => resp.status = 400
        /\ (resp.method \notin {"GET", "POST", "OPTIONS"} /\ ValidUserId)
              => resp.status = 405
        /\ resp.failed => resp.status = 500
        /\ resp.status >= 400 => ~resp.changed

\* A POST over a stored document on which the store call throws.
C9_Witness == resp.method = "POST" /\ resp.status = 500 /\ resp.found

(***************************************************************************)
(* The useLocalStorage hook on its own: a page whose component calls the   *)
(* hook with one key, over whatever text localStorage holds under it.      *)
(***************************************************************************)
\* Texts found under a key: none, blank, not JSON, JSON null, or a
\* serialised value.
StoredTexts(key) == {NULL, "", "x", "null"} \cup {JSONstringify(v) : v \in TValues(key)}

InitHook ==
    /\ InitServer
    /\ InitIdle
    /\ grid = "v7"
    /\ hookKeys \in {{"todos"}, {BG_KEY}}
    /\ localStorage \in [LSKeys -> UNION {StoredTexts(k) : k \in LSKeys}]
    /\ \A k \in LSKeys : IF k \in hookKeys THEN localStorage[k] \in StoredTexts(k)
                                          ELSE localStorage[k] = NULL
    /\ hooks = [k \in LSKeys |-> initialValue(k)]
    /\ pendingEffects = {}
    /\ page = "reloading"
    /\ hookLog = [k \in LSKeys |-> NoLog]

\* First render: useState's initialiser reads the item; the effect runs after
\* the render.
HookMount ==
    /\ page = "reloading"
    /\ page' = "live"
    /\ hooks' = [k \in LSKeys |-> IF k \in hookKeys
                                  THEN useLocalStorageInit(k, localStorage)
                                  ELSE hooks[k]]
    /\ pendingEffects' = hookKeys
    /\ UNCHANGED <<localStorage, hookKeys, hookLog, serverVars, appVars, gridVars, widgetVars>>

\* setValue(value) or setValue(updater); the effect is scheduled when the
\* state changed (Object.is on the state: a string by value, an array by
\* reference, and a passed or computed array is a new one).
HookSetValue(k, isFunction, value) ==
    LET new == setValue(isFunction, value, hooks[k]) IN
    /\ page = "live"
    /\ k \in hookKeys
    /\ new \in TValues(k)
    /\ hooks' = [hooks EXCEPT ![k] = new]
    /\ pendingEffects' = IF new # hooks[k] \/ new.kind # "string"
                         THEN pendingEffects \cup {k} ELSE pendingEffects
    /\ UNCHANGED <<localStorage, page, hookKeys, hookLog, serverVars, appVars, gridVars, widgetVars>>

HookSet == \E k \in LSKeys : \E v \in TValues(k) : HookSetValue(k, FALSE, v)

HookUpdate == \E k \in DataKeys, f \in Updaters : HookSetValue(k, TRUE, f)

\* useEffect(() => saveToStorage(key, storedValue), [key, storedValue])
HookEffect ==
    \E k \in pendingEffects, quotaExceeded \in BOOLEAN :
        /\ page = "live"
        /\ localStorage' = saveToStorage(k, hooks[k], localStorage, quotaExceeded)
        /\ pendingEffects' = pendingEffects \ {k}
        /\ hookLog' = [hookLog EXCEPT ![k].writeOk = ~quotaExceeded]
        /\ UNCHANGED <<hooks, page, hookKeys, serverVars, appVars, gridVars, widgetVars>>

\* The page goes away (reload): its state and its effects not yet run are lost.
HookReload ==
    /\ page = "live"
    /\ page' = "reloading"
    /\ pendingEffects' = {}
    /\ hookLog' = [k \in LSKeys |->
                     LET clean == k \in hookKeys /\ k \notin pendingEffects
                                    /\ hookLog[k].writeOk IN
                     [writeOk |-> hookLog[k].writeOk, clean |-> clean,
                      prev |-> IF clean THEN hooks[k] ELSE JNull]]
    /\ UNCHANGED <<localStorage, hooks, hookKeys, serverVars, appVars, gridVars, widgetVars>>

NextHook == HookMount \/ HookSet \/ HookUpdate \/ HookEffect \/ HookReload

SpecHook == InitHook /\ [][NextHook]_vars

\* A step that mounts the page
Mounts == page = "reloading" /\ page' = "live"

Trim(value) == IF value = " " THEN "" ELSE value

\* isStorageValueEmpty(value)
isStorageValueEmpty(value) ==
    IF value = NULL THEN TRUE
    ELSE IF Trim(value) = "" THEN TRUE
    ELSE IF JSONparses(value)
         THEN LET parsed == JSONparse(value) IN
              IF parsed.kind = "array" THEN Len(parsed.items) = 0
              ELSE IF parsed.kind = "object" THEN Len(parsed.items) = 0
              ELSE FALSE
         ELSE FALSE

\* The member of the cloud document that goes with a local key
CloudField(key) == IF key = "calendar-events" THEN "calendar" ELSE key

\* The order in which loadFromCloud calls restoreIfAllowed
RestoreOrder == <<"todos", "readings", "bookmarks", "calendar-events">>

\* restoreIfAllowed(key, cloudValue): whether it writes, and the storage it
\* leaves.
restoreIfAllowed(key, cloudValue, force, ls) ==
    IF cloudValue = NULL \/ cloudValue = "" THEN [restored |-> FALSE, ls |-> ls]
    ELSE IF ~force /\ ~isStorageValueEmpty(ls[key]) THEN [restored |-> FALSE, ls |-> ls]
    ELSE [restored |-> TRUE, ls |-> [ls EXCEPT ![key] = cloudValue]]

\* hasRestoredAny = restoreIfAllowed(..) || restoreIfAllowed(..) || ..., from
\* the n-th call on: a call is made only when every call before it returned
\* false.
RECURSIVE hasRestoredAny(_, _, _, _)
hasRestoredAny(n, cloudData, force, ls) ==
    IF n > Len(RestoreOrder) THEN [restored |-> FALSE, ls |-> ls]
    ELSE LET r == restoreIfAllowed(RestoreOrder[n], cloudData[CloudField(RestoreOrder[n])],
                                   force, ls) IN
         IF r.restored THEN r ELSE hasRestoredAny(n + 1, cloudData, force, ls)

\* shouldRestoreBgImage, with the bgImage of the render that started the load
shouldRestoreBgImage(cloudData, force, bgImage) ==
    /\ cloudData.bgImage # NULL /\ cloudData.bgImage # ""
    /\ (force \/ bgImage = DEFAULT_BG \/ Trim(bgImage) = "")

\* allData of saveToCloud
allData(ls, bgImage) ==
    [todos |-> ls["todos"], readings |-> ls["readings"], bookmarks |-> ls["bookmarks"],
     calendar |-> ls["calendar-events"], bgImage |-> bgImage]

\* A fetch of /api/sync and what its continuation closes over.  phase is
\* "sent", then "answered" (status, data) or "failed" (the fetch rejects).
LoadRequest(userId, force, auto, bgImage) ==
    [kind |-> "load", userId |-> userId, force |-> force, auto |-> auto,
     bgImage |-> bgImage, body |-> JSUndefined, alive |-> TRUE,
     phase |-> "sent", status |-> 0, data |-> JSUndefined]

SaveRequest(userId, body) ==
    [kind |-> "save", userId |-> userId, force |-> FALSE, auto |-> FALSE,
     bgImage |-> "", body |-> body, alive |-> TRUE,
     phase |-> "sent", status |-> 0, data |-> JSUndefined]

Remove(q, i) == SubSeq(q, 1, i - 1) \o SubSeq(q, i + 1, Len(q))

\* The page goes away: no continuation of its fetches runs any more.  A GET
\* not yet served changes nothing and is dropped with the answered ones; a
\* POST not yet served still reaches the server.
AfterUnload(q) ==
    LET left == SelectSeq(q, LAMBDA r : r.kind = "save" /\ r.phase = "sent") IN
    [i \in DOMAIN left |-> [left[i] EXCEPT !.alive = FALSE]]

MaxInFlight == 2

\* What the app has the user enter
AppUsers == {"u1"}
EditedKeys == {"todos", "readings"}
AppValues == {JArr(<<>>), JArr(<<1>>)}
AppBgStrings == {DEFAULT_BG, "a.jpg"}

bgImage == hooks[BG_KEY].s

\* The auto-load effect, run after a render in which one of its dependencies
\* changed: if (authenticated && user?.id && !hasLoadedFromCloud) loadFromCloud()
AutoLoadDue(userAfter, hasLoadedAfter) == userAfter # NULL /\ ~hasLoadedAfter

\* The page goes away (window.location.reload()).
Unload(left) ==
    /\ page' = "reloading"
    /\ requests' = AfterUnload(left)
    /\ gridLayouts' = <<>>

\* The page loads: every hook reads its item and its effect writes the value
\* back, the grid shows its layouts, App reads the session flag, and the
\* auto-load effect runs once Privy reports the user.
AppMount ==
    LET values == [k \in LSKeys |-> useLocalStorageInit(k, localStorage)]
        saved == savedLayoutsInit(layoutItem)
        loaded == (sessionStorage = "true")
        due == AutoLoadDue(user, loaded) IN
    /\ page = "reloading"
    /\ hookKeys = LSKeys
    /\ due => Len(requests) < MaxInFlight
    /\ page' = "live"
    /\ hooks' = values
    /\ localStorage' = [k \in LSKeys |-> JSONstringify(values[k])]
    /\ savedLayouts' = saved
    /\ layoutItem' = ItemOf(saved)
    /\ gridLayouts' = IF grid = "v2" THEN responsiveLayouts ELSE initLayouts(saved)
    /\ hasLoadedFromCloud' = loaded
    /\ syncStatus' = IF due THEN "syncing" ELSE "idle"
    /\ requests' = IF due
                   THEN Append(requests, LoadRequest(user, FALSE, TRUE, values[BG_KEY].s))
                   ELSE requests
    /\ autoLoad' = IF due /\ autoLoad = "none" THEN "started" ELSE autoLoad
    /\ resetPending' = FALSE
    /\ UNCHANGED <<serverVars, pendingEffects, hookKeys, hookLog, user, sessionStorage,
                   grid, width, moves, widgetVars>>

\* The user reloads the page.
AppReload ==
    /\ page = "live"
    /\ hookKeys = LSKeys
    /\ Unload(requests)
    /\ UNCHANGED <<serverVars, localStorage, hooks, pendingEffects, hookKeys, hookLog,
                   user, sessionStorage, syncStatus, hasLoadedFromCloud, autoLoad,
                   resetPending, grid, layoutItem, savedLayouts, width, moves, widgetVars>>

\* login() of Privy succeeds; the auto-load effect runs on the new user id.
Login ==
    \E u \in AppUsers :
        LET due == AutoLoadDue(u, hasLoadedFromCloud) IN
        /\ page = "live" /\ hookKeys = LSKeys
        /\ user = NULL
        /\ due => Len(requests) < MaxInFlight
        /\ user' = u
        /\ syncStatus' = IF due THEN "syncing" ELSE syncStatus
        /\ requests' = IF due THEN Append(requests, LoadRequest(u, FALSE, TRUE, bgImage))
                       ELSE requests
        /\ autoLoad' = IF due /\ autoLoad = "none" THEN "started" ELSE autoLoad
        /\ UNCHANGED <<serverVars, hookVars, sessionStorage, hasLoadedFromCloud,
                       resetPending, gridVars, widgetVars>>

\* logout() of Privy
Logout ==
    /\ page = "live" /\ hookKeys = LSKeys
    /\ user # NULL
    /\ user' = NULL
    /\ UNCHANGED <<serverVars, hookVars, sessionStorage, syncStatus, hasLoadedFromCloud,
                   requests, autoLoad, resetPending, gridVars, widgetVars>>

\* A widget sets its list, and the hook's effect stores it.
EditWidget ==
    \E k \in EditedKeys, v \in AppValues :
        /\ page = "live" /\ hookKeys = LSKeys
        /\ hooks' = [hooks EXCEPT ![k] = setValue(FALSE, v, hooks[k])]
        /\ localStorage' = saveToStorage(k, hooks'[k], localStorage, FALSE)
        /\ UNCHANGED <<serverVars, pendingEffects, page, hookKeys, hookLog, appVars, gridVars, widgetVars>>

\* The settings panel sets the background image, and the hook's effect
\* stores it.
SetBgImage ==
    \E x \in AppBgStrings :
        /\ page = "live" /\ hookKeys = LSKeys
        /\ hooks' = [hooks EXCEPT ![BG_KEY] = setValue(FALSE, JStr(x), hooks[BG_KEY])]
        /\ localStorage' = saveToStorage(BG_KEY, hooks'[BG_KEY], localStorage, FALSE)
        /\ UNCHANGED <<serverVars, pendingEffects, page, hookKeys, hookLog, appVars, gridVars, widgetVars>>

\* saveToCloud(), from the Save button (shown to a logged-in user, disabled
\* while syncing)
saveToCloud ==
    /\ page = "live" /\ hookKeys = LSKeys
    /\ user # NULL
    /\ syncStatus # "syncing"
    /\ Len(requests) < MaxInFlight
    /\ syncStatus' = "syncing"
    /\ requests' = Append(requests, SaveRequest(user, JSObject(allData(localStorage, bgImage))))
    /\ UNCHANGED <<serverVars, hookVars, user, sessionStorage, hasLoadedFromCloud,
                   autoLoad, resetPending, gridVars, widgetVars>>

\* refreshFromCloud(), from the Load button (disabled while syncing): the
\* forced load is sent, and the render that follows runs the auto-load effect
\* when hasLoadedFromCloud went from true to false.
refreshFromCloud ==
    LET due == hasLoadedFromCloud /\ AutoLoadDue(user, FALSE)
        forced == Append(requests, LoadRequest(user, TRUE, FALSE, bgImage)) IN
    /\ page = "live" /\ hookKeys = LSKeys
    /\ user # NULL
    /\ syncStatus # "syncing"
    /\ Len(requests) + (IF due THEN 2 ELSE 1) <= MaxInFlight
    /\ sessionStorage' = NULL
    /\ hasLoadedFromCloud' = FALSE
    /\ syncStatus' = "syncing"
    /\ requests' = IF due THEN Append(forced, LoadRequest(user, FALSE, TRUE, bgImage))
                   ELSE forced
    /\ autoLoad' = IF due /\ autoLoad = "none" THEN "started" ELSE autoLoad
    /\ UNCHANGED <<serverVars, hookVars, user, resetPending, gridVars, widgetVars>>

\* /api/sync serves a request in flight; the response goes back to the page
\* if it is still there.
ServerHandle ==
    \E i \in DOMAIN requests, storeFails \in BOOLEAN :
        LET req == requests[i]
            r == handler([method |-> IF req.kind = "save" THEN "POST" ELSE "GET",
                          userId |-> JSString(req.userId), body |-> req.body],
                         redis, storeFails) IN
        /\ req.phase = "sent"
        /\ redis' = r.store
        /\ requests' = IF req.alive
                       THEN [requests EXCEPT ![i].phase = "answered",
                                             ![i].status = r.status,
                                             ![i].data = r.data]
                       ELSE Remove(requests, i)
        /\ UNCHANGED <<resp, posted, hookVars, user, sessionStorage, syncStatus,
                       hasLoadedFromCloud, autoLoad, resetPending, gridVars, widgetVars>>

\* The fetch of a request in flight rejects (the network is down).
NetworkFail ==
    \E i \in DOMAIN requests :
        /\ requests[i].phase = "sent"
        /\ requests[i].alive
        /\ requests' = [requests EXCEPT ![i].phase = "failed"]
        /\ UNCHANGED <<serverVars, hookVars, user, sessionStorage, syncStatus,
                       hasLoadedFromCloud, autoLoad, resetPending, gridVars, widgetVars>>

\* The rest of saveToCloud, after await fetch(...)
SaveContinues(i) ==
    LET req == requests[i]
        ok == req.phase = "answered" /\ req.status = 200 IN
    /\ req.kind = "save"
    /\ syncStatus' = IF ok THEN "done" ELSE "error"
    /\ requests' = Remove(requests, i)
    /\ UNCHANGED <<serverVars, hookVars, user, sessionStorage, hasLoadedFromCloud,
                   autoLoad, resetPending, gridVars, widgetVars>>

\* The rest of loadFromCloud, after await fetch(...), when no document comes
\* back: 404, the catch block, or a falsy result.data
LoadWithoutDocument(i) ==
    LET req == requests[i]
        answered == req.phase = "answered"
        falsyData == answered /\ req.status = 200 /\ Falsy(req.data) IN
    /\ req.kind = "load"
    /\ ~(answered /\ req.status = 200 /\ ~Falsy(req.data))
    /\ syncStatus' = IF falsyData THEN syncStatus
                     ELSE IF answered /\ req.status = 404 THEN "idle" ELSE "error"
    /\ hasLoadedFromCloud' = IF falsyData THEN hasLoadedFromCloud ELSE TRUE
    /\ sessionStorage' = IF falsyData THEN sessionStorage ELSE "true"
    /\ autoLoad' = IF req.auto THEN "completed" ELSE autoLoad
    /\ requests' = Remove(requests, i)
    /\ UNCHANGED <<serverVars, hookVars, user, resetPending, gridVars, widgetVars>>

\* The rest of loadFromCloud when a document comes back.  setBgImage is
\* followed at once by window.location.reload() when a key was restored: the
\* hook's effect then stores the new background, or the page is gone first.
LoadWithDocument(i) ==
    LET req == requests[i]
        cloudData == req.data.doc
        restore == hasRestoredAny(1, cloudData, req.force, localStorage)
        setBg == shouldRestoreBgImage(cloudData, req.force, req.bgImage)
        newBg == IF setBg THEN JStr(cloudData.bgImage) ELSE hooks[BG_KEY] IN
    /\ req.kind = "load"
    /\ req.phase = "answered" /\ req.status = 200 /\ ~Falsy(req.data)
    /\ hooks' = [hooks EXCEPT ![BG_KEY] = newBg]
    /\ \E effectRuns \in IF setBg /\ restore.restored THEN BOOLEAN ELSE {TRUE} :
          localStorage' = IF setBg /\ effectRuns
                          THEN saveToStorage(BG_KEY, newBg, restore.ls, FALSE)
                          ELSE restore.ls
    /\ hasLoadedFromCloud' = TRUE
    /\ sessionStorage' = "true"
    /\ syncStatus' = "done"
    /\ autoLoad' = IF req.auto THEN "completed" ELSE autoLoad
    /\ IF restore.restored
       THEN Unload(Remove(requests, i))
       ELSE /\ requests' = Remove(requests, i)
            /\ UNCHANGED <<page, gridLayouts>>
    /\ UNCHANGED <<serverVars, pendingEffects, hookKeys, hookLog, user, resetPending,
                   grid, layoutItem, savedLayouts, width, moves, widgetVars>>

\* The continuation of a fetch runs on the page that sent it.
Deliver ==
    \E i \in DOMAIN requests :
        /\ page = "live"
        /\ requests[i].alive
        /\ requests[i].phase \in {"answered", "failed"}
        /\ \/ SaveContinues(i)
           \/ LoadWithoutDocument(i)
           \/ LoadWithDocument(i)

\* confirmReset(): the click's render and effects are flushed before the
\* page goes away.
confirmReset ==
    /\ page = "live" /\ hookKeys = LSKeys
    /\ hooks' = [hooks EXCEPT ![BG_KEY] = setValue(FALSE, JStr(DEFAULT_BG), hooks[BG_KEY])]
    /\ localStorage' = saveToStorage(BG_KEY, hooks'[BG_KEY],
                                     [k \in LSKeys |-> IF k \in DataKeys THEN NULL
                                                       ELSE localStorage[k]], FALSE)
    /\ Unload(requests)
    /\ resetPending' = TRUE
    /\ UNCHANGED <<serverVars, pendingEffects, hookKeys, hookLog, user, sessionStorage,
                   syncStatus, hasLoadedFromCloud, autoLoad, grid, layoutItem,
                   savedLayouts, width, moves, widgetVars>>

\* The browser session ends (the tab is closed) and a new one starts:
\* sessionStorage is empty again, localStorage stays.
SessionEnds ==
    /\ hookKeys = LSKeys
    /\ sessionStorage # NULL \/ autoLoad # "none"
    /\ sessionStorage' = NULL
    /\ autoLoad' = "none"
    /\ resetPending' = FALSE
    /\ Unload(requests)
    /\ UNCHANGED <<serverVars, localStorage, hooks, pendingEffects, hookKeys, hookLog,
                   user, syncStatus, hasLoadedFromCloud, grid, layoutItem, savedLayouts,
                   width, moves, widgetVars>>

(***************************************************************************)
(* The grid on the page.  ResponsiveGridLayout is a library: a drag or a   *)
(* resize of one widget at the current breakpoint makes it call            *)
(* onLayoutChange with the layouts it then displays.                       *)
(***************************************************************************)
MaxMoves == 2

\* breakpoints = { lg: 1200, md: 768, sm: 480, xs: 0 } on the container width
Breakpoint(w) == IF w = "wide" THEN "lg" ELSE IF w = "medium" THEN "md" ELSE "sm"

\* setIsMobile(window.innerWidth < 768)
isMobile == width = "narrow"

\* Where the user drops a widget, and how small the user makes it
DragTargets == {[x |-> 0, y |-> 0], [x |-> 6, y |-> 2]}

\* onLayoutChange={handleLayoutChange}, and the hook's effect
LayoutChanged(allLayouts) ==
    /\ gridLayouts' = allLayouts
    /\ savedLayouts' = IF grid = "v2" THEN handleLayoutChange_v2(allLayouts)
                       ELSE handleLayoutChange_v7(allLayouts)
    /\ layoutItem' = ItemOf(savedLayouts')

\* dragConfig: enabled: !isMobile
GridDrag ==
    \E idx \in DOMAIN defaultLayout, to \in DragTargets :
        LET bp == Breakpoint(width) IN
        /\ page = "live" /\ hookKeys = LSKeys
        /\ ~isMobile
        /\ moves < MaxMoves
        /\ moves' = moves + 1
        /\ LayoutChanged([gridLayouts EXCEPT ![bp][idx].x = to.x, ![bp][idx].y = to.y])
        /\ UNCHANGED <<serverVars, hookVars, appVars, grid, width, widgetVars>>

\* resizeConfig: enabled: !isMobile; down to the widget's minimum size
GridResize ==
    \E idx \in DOMAIN defaultLayout :
        LET bp == Breakpoint(width)
            item == gridLayouts[bp][idx] IN
        /\ page = "live" /\ hookKeys = LSKeys
        /\ ~isMobile
        /\ moves < MaxMoves
        /\ moves' = moves + 1
        /\ LayoutChanged([gridLayouts EXCEPT ![bp][idx].w = item.minW, ![bp][idx].h = item.minH])
        /\ UNCHANGED <<serverVars, hookVars, appVars, grid, width, widgetVars>>

\* The window is resized.
WindowResize ==
    \E w \in {"wide", "medium", "narrow"} :
        /\ page = "live" /\ hookKeys = LSKeys
        /\ w # width
        /\ width' = w
        /\ UNCHANGED <<serverVars, hookVars, appVars, grid, layoutItem, savedLayouts,
                       gridLayouts, moves, widgetVars>>

(***************************************************************************)
(* The dashboard with cloud sync, and the dashboard with its grid          *)
(***************************************************************************)
InitApp ==
    /\ InitServer
    /\ InitIdle
    /\ localStorage = [k \in LSKeys |-> NULL]
    /\ hooks = [k \in LSKeys |-> initialValue(k)]
    /\ pendingEffects = {}
    /\ page = "reloading"
    /\ hookKeys = LSKeys
    /\ hookLog = [k \in LSKeys |-> NoLog]

Init == InitApp /\ grid = "v7"

Next ==
    \/ AppMount
    \/ AppReload
    \/ Login
    \/ Logout
    \/ EditWidget
    \/ SetBgImage
    \/ saveToCloud
    \/ refreshFromCloud
    \/ ServerHandle
    \/ NetworkFail
    \/ Deliver
    \/ confirmReset
    \/ SessionEnds

Spec == Init /\ [][Next]_vars

InitGrid == InitApp /\ grid \in {"v2", "v7"}

NextGrid ==
    \/ AppMount
    \/ AppReload
    \/ GridDrag
    \/ GridResize
    \/ WindowResize
    \/ confirmReset

SpecGrid == InitGrid /\ [][NextGrid]_vars

\* The continuation of load i runs with a cloud document in this step.
LoadsDocument(i) == page = "live" /\ requests[i].alive /\ LoadWithDocument(i)

\* C2 (as claimed): a load that receives a cloud document writes the cloud
\* value into every one of the four local keys whose cloud value is present
\* and for which restoring is allowed: all of them on a forced load, those
\* whose local value is empty on an automatic one.
C2_RestoresEveryAllowedKey ==
    [][\A i \in DOMAIN requests :
          LoadsDocument(i) =>
              \A k \in DataKeys :
                  LET cloudValue == requests[i].data.doc[CloudField(k)] IN
                  (/\ cloudValue # NULL /\ cloudValue # ""
                   /\ (requests[i].force \/ isStorageValueEmpty(localStorage[k])))
                      => localStorage'[k] = cloudValue]_vars

\* C3 (as claimed): a load that is not forced leaves every non-empty local
\* value of the four keys as it was, and replaces the background image only
\* if it is the default wallpaper or blank.
C3_AutoLoadKeepsLocalData ==
    [][\A i \in DOMAIN requests :
          (LoadsDocument(i) /\ ~requests[i].force) =>
              /\ \A k \in DataKeys :
                    ~isStorageValueEmpty(localStorage[k]) => localStorage'[k] = localStorage[k]
              /\ hooks'[BG_KEY] # hooks[BG_KEY]
                    => (bgImage = DEFAULT_BG \/ Trim(bgImage) = "")]_vars

\* A text anybody can read: the JSON serialisation of a value
IsPlaintext(text) == text # NULL /\ JSONparses(text)

\* C6 (as claimed): the body of a Save request and the value stored for the
\* user never contain the plaintext of the local todos, readings, bookmarks
\* or calendar events.
C6_UploadIsCiphertext ==
    /\ \A i \in DOMAIN requests :
          requests[i].kind = "save" =>
              \A f \in DataFields : ~IsPlaintext(requests[i].body.doc[f])
    /\ \A key \in RedisKeys :
          \A f \in DataFields : ~IsPlaintext(redis[key].doc[f])

\* The saved desktop layouts place every widget where defaultLayout does.
SavedLayoutIsDefault(saved) ==
    \A bp \in DOMAIN saved \cap {"lg", "md"} :
        \A idx \in DOMAIN saved[bp] :
            /\ saved[bp][idx].x = defaultLayout[idx].x
            /\ saved[bp][idx].y = defaultLayout[idx].y
            /\ saved[bp][idx].w = defaultLayout[idx].w
            /\ saved[bp][idx].h = defaultLayout[idx].h

\* C7 (as claimed): after the reload that follows confirmReset, none of the
\* four data keys holds an item, the background image is the default one and
\* the persisted widget layout is the default one.
C7_ResetRestoresDefaults ==
    [][(Mounts /\ resetPending) =>
          /\ \A k \in DataKeys : localStorage'[k] = JSONstringify(JArr(<<>>))
          /\ localStorage'[BG_KEY] = JSONstringify(JStr(DEFAULT_BG))
          /\ SavedLayoutIsDefault(savedLayoutsInit(layoutItem'))]_vars

\* The automatic loads among the requests
AutoLoads(q) == {i \in DOMAIN q : q[i].kind = "load" /\ q[i].auto}

\* This step starts an automatic load.
StartsAutoLoad == Cardinality(AutoLoads(requests')) > Cardinality(AutoLoads(requests))

\* This step runs the continuation of automatic load i.
CompletesAutoLoad(i) ==
    /\ page = "live" /\ requests[i].alive /\ requests[i].auto
    /\ requests[i].phase \in {"answered", "failed"}
    /\ LoadWithoutDocument(i) \/ LoadWithDocument(i)

\* C8 (as claimed): in a browser session at most one automatic load is
\* started; when it completes the session flag 'cloud-loaded' is 'true'; and
\* after that no automatic load is started in the session.
C8_AutoLoadOnce ==
    [][/\ autoLoad # "none" => ~StartsAutoLoad
       /\ \A i \in DOMAIN requests : CompletesAutoLoad(i) => sessionStorage' = "true"]_vars

\* C10 (as claimed): a page load that finds saved layouts displays, at the
\* desktop breakpoints, every widget at its saved position and size.
C10_LayoutRestored ==
    [][(Mounts /\ DOMAIN savedLayoutsInit(layoutItem) # {}) =>
          \A bp \in DOMAIN savedLayoutsInit(layoutItem) \cap {"lg", "md"} :
              \A idx \in DOMAIN defaultLayout :
                  LET saved == savedLayoutsInit(layoutItem)[bp][idx]
                      shown == gridLayouts'[bp][idx] IN
                  /\ shown.x = saved.x /\ shown.y = saved.y
                  /\ shown.w = saved.w /\ shown.h = saved.h]_vars

(***************************************************************************)
(* The places-search proxy serving requests                                *)
(***************************************************************************)
ProxyPaths ==
    {JSUndefined, JSString("v2/local/search/keyword.json"),
     [type |-> "array", s |-> "v2/local/search/keyword.json", doc |-> NoDoc]}

ProxyRequest ==
    \E m \in {"GET", "POST", "OPTIONS"}, path \in ProxyPaths, q \in {"", "cafe"},
       a \in {JSUndefined, JSString("KakaoAK key")}, upstream \in Upstreams :
        LET r == kakaoHandler([method |-> m, path |-> path, query |-> q,
                               authorization |-> a], upstream) IN
        /\ kakao' = [method |-> m, path |-> path.type, upstream |-> upstream.kind,
                     status |-> r.status, body |-> r.body, url |-> r.url,
                     authorization |-> r.authorization, headers |-> r.headers]
        /\ UNCHANGED exceptProxy

InitProxy == InitSync

NextProxy == ProxyRequest

SpecProxy == InitProxy /\ [][NextProxy]_vars

\* C11 (as claimed): every response of the proxy, the relayed upstream
\* response and the 500 sent when the upstream call fails, carries the
\* Access-Control-Allow-Origin, -Methods and -Headers headers.
C11_EveryResponseHasCors ==
    kakao.status # 0 => DOMAIN CorsHeaders \subseteq DOMAIN kakao.headers

(***************************************************************************)
(* TodoWidget (src/unnamed/part_002).  Time is counted in hours; a date is *)
(* the number of its day, and a month has DaysPerMonth days.               *)
(***************************************************************************)
MaxTodos == 3
MaxClock == 204
DaysPerMonth == 2
HoursPerDay == 24
RESET_HOUR == 5
TimeZones == {0, 5, 9}
TickHours == {6, 24}
RecurringTypes == {"none", "daily", "weekly", "monthly"}
\* The recurrences the user picks for a new todo, and in an edit
NewRecurring == {"none"}
EditedRecurring == {"none", "daily"}
DaysPerWeek == 7

\* new Date().toISOString().split('T')[0]: the date in UTC
isoDate(now, zone) == (now - zone) \div HoursPerDay

\* new Date('YYYY-MM-DD'): midnight in UTC, here in hours of local time
newDate(day, zone) == day * HoursPerDay + zone

\* getCycleDate(dateObj): the local date five hours earlier
getCycleDate(dateObj) == (dateObj - RESET_HOUR) \div HoursPerDay

\* d.getFullYear() * 12 + d.getMonth() of new Date(cycleDate): local month
monthIndex(day, zone) == (newDate(day, zone) \div HoursPerDay) \div DaysPerMonth

\* shouldRegenerate of the regeneration effect, for a todo that passed the
\* effect's first test
shouldRegenerate(todo, now, zone) ==
    LET todayCycle == getCycleDate(now)
        lastCycle == getCycleDate(newDate(todo.lastCompletedDate[1], zone))
        daysDiff == todayCycle - lastCycle IN
    \/ todo.recurring = "daily" /\ daysDiff >= 1
    \/ todo.recurring = "weekly" /\ daysDiff >= DaysPerWeek
    \/ todo.recurring = "monthly"
         /\ monthIndex(todayCycle, zone) - monthIndex(lastCycle, zone) >= 1

\* The regeneration effect: updatedTodos
regenerate(items, now, zone) ==
    [idx \in DOMAIN items |->
        LET todo == items[idx] IN
        IF ~IsRecurring(todo) \/ ~todo.completed \/ todo.lastCompletedDate = <<>>
        THEN todo
        ELSE IF shouldRegenerate(todo, now, zone) THEN [todo EXCEPT !.completed = FALSE]
        ELSE todo]

TodoIds(items) == {t.id : t \in AllTodos(items)}

\* Date.now().toString(): an id no todo has
FreshId(items) == CHOOSE i \in 1..MaxTodos :
                     i \notin TodoIds(items) /\ \A j \in 1..(i - 1) : j \in TodoIds(items)

TodoById(items, id) == CHOOSE t \in AllTodos(items) : t.id = id

DepthOf(items, id) == WrappersOf(items, id, 0)[1].depth

\* The id handleDragStart leaves in the dataTransfer: dragstart bubbles
\* through the wrappers of the dragged todo, and each calls setData.
DragSource(items, dragged) ==
    LET wrappers == WrappersOf(items, dragged, 0) IN wrappers[Len(wrappers)].id

\* setTodos(value), and the regeneration effect that the change triggers
SetTodos(value) == todos' = regenerate(value, clock, tz)

\* A render that setTodos did not cause: setTodos is a new function on
\* every render, so the regeneration effect runs again
Rerender == todos' = regenerate(todos, clock, tz)

\* The widget mounts (the page loads): the effects run
TodoMount ==
    /\ SetTodos(todos)
    /\ parentTodoId' = 0
    /\ isModalOpen' = FALSE
    /\ UNCHANGED <<clock, tz, completedAt, exceptTodo>>

handleAddTodo ==
    \E recurring \in NewRecurring :
        /\ ~isModalOpen
        /\ Cardinality(TodoIds(todos)) < MaxTodos
        /\ SetTodos(Append(todos, TodoItem(FreshId(todos), recurring)))
        /\ UNCHANGED <<parentTodoId, isModalOpen, clock, tz, completedAt, exceptTodo>>

\* The floating button: onClick={() => setIsModalOpen(true)}
OpenModal ==
    /\ ~isModalOpen
    /\ isModalOpen' = TRUE
    /\ Rerender
    /\ UNCHANGED <<parentTodoId, clock, tz, completedAt, exceptTodo>>

\* handleContextMenu without its test of depth
handleContextMenu_anyDepth ==
    \E todoId \in TodoIds(todos) :
        /\ ~isModalOpen
        /\ parentTodoId' = todoId /\ isModalOpen' = TRUE /\ Rerender
        /\ UNCHANGED <<clock, tz, completedAt, exceptTodo>>

handleContextMenu ==
    \E todoId \in TodoIds(todos) :
        /\ ~isModalOpen
        /\ IF DepthOf(todos, todoId) >= 1
           THEN UNCHANGED <<todos, parentTodoId, isModalOpen>>
           ELSE parentTodoId' = todoId /\ isModalOpen' = TRUE /\ Rerender
        /\ UNCHANGED <<clock, tz, completedAt, exceptTodo>>

closeModal ==
    /\ isModalOpen
    /\ isModalOpen' = FALSE
    /\ parentTodoId' = 0
    /\ Rerender
    /\ UNCHANGED <<clock, tz, completedAt, exceptTodo>>

handleModalSubmit ==
    \E recurring \in NewRecurring :
        LET newTodo == TodoItem(FreshId(todos), recurring) IN
        /\ isModalOpen
        /\ Cardinality(TodoIds(todos)) < MaxTodos
        /\ IF parentTodoId # 0
           THEN SetTodos(addSubTaskToTree(todos, parentTodoId, newTodo))
           ELSE SetTodos(Append(todos, newTodo))
        /\ isModalOpen' = FALSE
        /\ parentTodoId' = 0
        /\ UNCHANGED <<clock, tz, completedAt, exceptTodo>>

toggleTodo ==
    \E id \in TodoIds(todos) :
        LET item == TodoById(todos, id) IN
        /\ ~isModalOpen
        /\ IF Len(item.subTodos) > 0
           THEN /\ SetTodos(toggleInTree(todos, id))
                /\ UNCHANGED completedAt
           ELSE /\ SetTodos(syncCompletionStatus(
                        updateTodoInTree(todos, id, "toggle", isoDate(clock, tz))))
                /\ completedAt' = [completedAt EXCEPT
                                      ![id] = IF ~item.completed /\ IsRecurring(item)
                                              THEN clock ELSE 0 - 1]
        /\ UNCHANGED <<parentTodoId, isModalOpen, clock, tz, exceptTodo>>

deleteTodo ==
    \E id \in TodoIds(todos) :
        /\ ~isModalOpen
        /\ SetTodos(updateTodoInTree(todos, id, "delete", 0))
        /\ completedAt' = [i \in DOMAIN completedAt |->
                              IF i \in TodoIds(todos') THEN completedAt[i] ELSE 0 - 1]
        /\ UNCHANGED <<parentTodoId, isModalOpen, clock, tz, exceptTodo>>

saveEdit ==
    \E editingId \in TodoIds(todos), editingRecurring \in EditedRecurring :
        /\ ~isModalOpen
        /\ SetTodos(updateTodoInTree(todos, editingId, "edit", editingRecurring))
        /\ completedAt' = [completedAt EXCEPT ![editingId] = 0 - 1]
        /\ UNCHANGED <<parentTodoId, isModalOpen, clock, tz, exceptTodo>>

\* The todos after the user drags todo dragged and drops it on todo target
DroppedOnItem(items, dragged, target) ==
    DropBubbles(items, DragSource(items, dragged), WrappersOf(items, target, 0),
                [set |-> FALSE, todos |-> items])

DropOnItem ==
    \E dragged \in TodoIds(todos), target \in TodoIds(todos) :
        LET result == DroppedOnItem(todos, dragged, target) IN
        /\ ~isModalOpen
        /\ IF result.set THEN SetTodos(result.todos) ELSE Rerender
        /\ completedAt' = [i \in DOMAIN completedAt |->
                              IF i \in TodoIds(todos') THEN completedAt[i] ELSE 0 - 1]
        /\ UNCHANGED <<parentTodoId, isModalOpen, clock, tz, exceptTodo>>

\* A drop on the list outside every todo
DropOnList ==
    \E dragged \in TodoIds(todos) :
        LET result == listOnDrop(todos, DragSource(todos, dragged)) IN
        /\ ~isModalOpen
        /\ IF result.set THEN SetTodos(result.todos) ELSE Rerender
        /\ UNCHANGED <<parentTodoId, isModalOpen, clock, tz, completedAt, exceptTodo>>

\* Time passes
Tick ==
    \E h \in TickHours :
        /\ clock + h <= MaxClock
        /\ clock' = clock + h
        /\ UNCHANGED <<todos, parentTodoId, isModalOpen, tz, completedAt, exceptTodo>>

\* The widget with an empty list, at noon in Seoul
InitTodo ==
    /\ InitDashboard
    /\ IdleProxy
    /\ IdleBookmark
    /\ IdleCalendarAndReading
    /\ todos = <<>>
    /\ parentTodoId = 0
    /\ isModalOpen = FALSE
    /\ clock = 12
    /\ tz = 9
    /\ completedAt = [i \in 1..MaxTodos |-> 0 - 1]

NextTodo ==
    \/ TodoMount
    \/ handleAddTodo
    \/ OpenModal
    \/ handleContextMenu
    \/ closeModal
    \/ handleModalSubmit
    \/ toggleTodo
    \/ deleteTodo
    \/ saveEdit
    \/ DropOnItem
    \/ DropOnList

SpecTodo == InitTodo /\ [][NextTodo]_vars

\* The widget with one top-level todo, in some time zone, as time passes
InitRecurring ==
    /\ InitDashboard
    /\ IdleProxy
    /\ IdleBookmark
    /\ IdleCalendarAndReading
    /\ \E recurring \in RecurringTypes : todos = <<TodoItem(1, recurring)>>
    /\ parentTodoId = 0
    /\ isModalOpen = FALSE
    /\ clock = 0
    /\ tz \in TimeZones
    /\ completedAt = [i \in 1..MaxTodos |-> 0 - 1]

NextRecurring ==
    \/ TodoMount
    \/ toggleTodo
    \/ Tick

SpecRecurring == InitRecurring /\ [][NextRecurring]_vars

\* The number of todos of the tree with this id
RECURSIVE CountId(_, _)
CountId(items, id) ==
    IF items = <<>> THEN 0
    ELSE (IF Head(items).id = id THEN 1 ELSE 0)
           + CountId(Head(items).subTodos, id) + CountId(Tail(items), id)

\* The todo is in the tree once, as the last sub-task of the root todo target
IsLastSubTaskOf(items, id, target) ==
    /\ CountId(items, id) = 1
    /\ \E i \in DOMAIN items :
          /\ items[i].id = target
          /\ Len(items[i].subTodos) > 0
          /\ items[i].subTodos[Len(items[i].subTodos)].id = id

\* C12 (as claimed): whatever the list, dragging a todo S and dropping it
\* on a different root-level todo T leaves S as the last sub-task of T and
\* nowhere else, once the drop handlers of the target and of the list have
\* run, whether S was a root todo or a sub-task of another todo.
C12_DroppedIsLastSubTask ==
    \A S \in TodoIds(todos), T \in TodoIds(todos) :
        (S # T /\ DepthOf(todos, T) = 0)
            => IsLastSubTaskOf(DroppedOnItem(todos, S, T).todos, S, T)

\* The depth of the deepest todo of the tree, 0 for root todos
RECURSIVE MaxDepth(_)
MaxDepth(items) ==
    IF items = <<>> THEN 0 - 1
    ELSE LET below == 1 + MaxDepth(Head(items).subTodos)
             beside == MaxDepth(Tail(items)) IN
         IF below > beside THEN below ELSE beside

\* C13: sub-tasks are at most one level deep: no sub-todo has sub-todos,
\* after any sequence of adding, adding a sub-task through the context menu
\* and the modal, toggling, editing, deleting and dropping.
C13_DepthAtMostOne == MaxDepth(todos) <= 1

\* C13's case: a root todo holds two sub-tasks, of which the drop handler
\* made at least one (the modal is closed, and only MaxTodos todos exist)
C13_Witness ==
    /\ ~isModalOpen
    /\ \E i \in DOMAIN todos : Len(todos[i].subTodos) = 2 /\ todos[i].isExpanded
    /\ MaxDepth(todos) = 1

\* The reset is due for a todo of this recurrence checked at hour checked:
\* the 5:00 AM cycle date has advanced by a day, a week, a calendar month
CycleDue(recurring, checked, now) ==
    LET today == getCycleDate(now)
        last == getCycleDate(checked) IN
    \/ recurring = "daily" /\ today - last >= 1
    \/ recurring = "weekly" /\ today - last >= DaysPerWeek
    \/ recurring = "monthly" /\ (today \div DaysPerMonth) - (last \div DaysPerMonth) >= 1

\* C16 (as claimed): a recurring top-level todo the user checked stays
\* completed while the 5:00 AM cycle date has not advanced by 1 day (daily),
\* 7 days (weekly), 1 calendar month (monthly) since the cycle day it was
\* checked in, and is incomplete after every run of the reset once it has.
C16_ResetExactlyOnCycle ==
    [][\A i \in DOMAIN todos' :
          LET todo == todos'[i]
              checked == completedAt'[todo.id] IN
          (IsRecurring(todo) /\ checked >= 0 /\ todo.subTodos = <<>>)
              => /\ ~CycleDue(todo.recurring, checked, clock') => todo.completed
                 /\ (clock' = clock /\ CycleDue(todo.recurring, checked, clock'))
                        => ~todo.completed]_vars

(***************************************************************************)
(* BookmarkWidget (src/src/components/widgets/index.ts).  A bookmark is a  *)
(* record of its id, its type and its parentId (0 when it has none); JS    *)
(* indexes count from 0 and the sequences here from 1.  The pointer's      *)
(* height over an item, relativeY, is in hundredths of the item's height.  *)
(***************************************************************************)
MaxBookmarkId == 4
ItemHeight == 100
RelativeYs == {10, 35, 90}

BookmarkItem(id, type, parentId) == [id |-> id, type |-> type, parentId |-> parentId]

BookmarkIds(list) == {list[i].id : i \in DOMAIN list}

\* list.findIndex(b => b.id === id)
findIndex(list, id) ==
    IF \E i \in DOMAIN list : list[i].id = id
    THEN (CHOOSE i \in DOMAIN list :
             list[i].id = id /\ \A j \in 1..(i - 1) : list[j].id # id) - 1
    ELSE 0 - 1

\* list.find(b => b.id === id), for an id of the list
findBookmark(list, id) == list[findIndex(list, id) + 1]

rootItems(list) == SelectSeq(list, LAMBDA b : b.parentId = 0)

getFolderChildren(list, folderId) == SelectSeq(list, LAMBDA b : b.parentId = folderId)

\* list.splice(index, 1)
SpliceOut(list, index) == SubSeq(list, 1, index) \o SubSeq(list, index + 2, Len(list))

\* list.splice(index, 0, item)
SpliceIn(list, index, item) ==
    LET at == IF index > Len(list) THEN Len(list) ELSE index IN
    SubSeq(list, 1, at) \o <<item>> \o SubSeq(list, at + 1, Len(list))

\* Zone detection of handleDragOver: the inner 60% of the target's height
isInFolderZone(targetId, isGapHover, edit, y) ==
    /\ ~isGapHover /\ targetId # 0 /\ edit
    /\ y * 10 > ItemHeight * 2 /\ y * 10 < ItemHeight * 8

\* newBookmarks without the correction of the index for the removal
newBookmarks_noShift(list, dragged, target, y) ==
    LET sourceIndex == findIndex(list, dragged)
        found == findIndex(list, target)
        bumped == IF findBookmark(list, target).type = "folder" /\ y * 10 > ItemHeight * 5
                  THEN Min(found + 1, Len(list)) ELSE found
        removed == list[sourceIndex + 1] IN
    SpliceIn(SpliceOut(list, sourceIndex), bumped, [removed EXCEPT !.parentId = 0])

\* Live reordering of handleDragOver with the indexes found: newBookmarks
newBookmarks(list, dragged, target, y) ==
    LET sourceIndex == findIndex(list, dragged)
        found == findIndex(list, target)
        bumped == IF findBookmark(list, target).type = "folder" /\ y * 10 > ItemHeight * 5
                  THEN Min(found + 1, Len(list)) ELSE found
        targetIndex == IF sourceIndex < bumped THEN bumped - 1 ELSE bumped
        removed == list[sourceIndex + 1] IN
    SpliceIn(SpliceOut(list, sourceIndex), targetIndex, [removed EXCEPT !.parentId = 0])

\* The bookmarks after handleDragOver, in a render with this draggedId,
\* editMode and folderPreviewTarget, over effectiveTargetId
liveReorder(list, dragged, edit, preview, effectiveTargetId, isGapHover, y) ==
    IF /\ edit /\ dragged # 0 /\ effectiveTargetId # 0 /\ dragged # effectiveTargetId
       /\ preview = 0
       /\ ~isInFolderZone(effectiveTargetId, isGapHover, edit, y)
       /\ findIndex(list, dragged) # 0 - 1 /\ findIndex(list, effectiveTargetId) # 0 - 1
    THEN newBookmarks(list, dragged, effectiveTargetId, y)
    ELSE list

\* cleanUpAllFolders(list): the folders are visited in the order of the
\* list; closes tells whether the expanded folder was dissolved
RECURSIVE cleanUpFolders(_, _, _, _)
cleanUpFolders(folderIds, newList, expanded, closes) ==
    IF folderIds = <<>> THEN [list |-> newList, closes |-> closes]
    ELSE LET fid == Head(folderIds)
             children == getFolderChildren(newList, fid) IN
         IF Len(children) <= 1 /\ findIndex(newList, fid) # 0 - 1
         THEN LET folder == findBookmark(newList, fid)
                  without == SelectSeq(newList, LAMBDA b : b.id # fid)
                  moved == [i \in DOMAIN without |->
                               IF without[i].parentId = fid
                               THEN [without[i] EXCEPT !.parentId = folder.parentId]
                               ELSE without[i]] IN
              cleanUpFolders(Tail(folderIds), moved, expanded, closes \/ fid = expanded)
         ELSE cleanUpFolders(Tail(folderIds), newList, expanded, closes)

cleanUpAllFolders(list, expanded) ==
    LET folders == SelectSeq(list, LAMBDA b : b.type = "folder") IN
    cleanUpFolders([i \in DOMAIN folders |-> folders[i].id], list, expanded, FALSE)

\* handleDrop(e, targetId, inFolder) in a render with these bookmarks,
\* folderPreviewTarget, editMode and expandedFolder: whether it calls
\* setBookmarks, with what, and whether it closes the expanded folder
handleDropBookmark(list, sourceId, targetId, inFolder, preview, edit, expanded, newFolderId) ==
    LET shouldCreateFolder == preview # 0 /\ preview = targetId
        unset == [set |-> FALSE, list |-> list, closes |-> FALSE]
        done(updated) == LET cleaned == cleanUpAllFolders(updated, expanded) IN
                         [set |-> TRUE, list |-> cleaned.list, closes |-> cleaned.closes]
        sourceItem == findBookmark(list, sourceId)
        targetItem == findBookmark(list, targetId)
        others == SelectSeq(list, LAMBDA b : b.id # sourceId) IN
    IF sourceId = 0 \/ sourceId = targetId THEN unset
    ELSE IF findIndex(list, sourceId) = 0 - 1 THEN unset
    ELSE IF targetId = 0
    THEN IF edit /\ ~inFolder THEN done(list)
         ELSE done(Append(others, [sourceItem EXCEPT
                                      !.parentId = IF inFolder THEN expanded ELSE 0]))
    ELSE IF findIndex(list, targetId) = 0 - 1 THEN unset
    ELSE IF targetItem.type = "folder"
    THEN IF sourceItem.type = "folder" THEN unset
         ELSE done(Append(others, [sourceItem EXCEPT !.parentId = targetItem.id]))
    ELSE IF ~shouldCreateFolder THEN done(list)
    ELSE LET newFolder == BookmarkItem(newFolderId, "folder", targetItem.parentId)
             targetIndex == findIndex(list, targetId)
             rest == SelectSeq(list, LAMBDA b : b.id # sourceId /\ b.id # targetId)
             withFolder == SpliceIn(rest, Min(targetIndex, Len(rest)), newFolder) IN
         done(withFolder \o <<[sourceItem EXCEPT !.parentId = newFolderId],
                              [targetItem EXCEPT !.parentId = newFolderId]>>)

\* onDrop of the backdrop of the expanded folder: the bookmarks it sets
backdropDrop(list, sourceId) ==
    LET oldParentId == findBookmark(list, sourceId).parentId
        updated == [i \in DOMAIN list |->
                       IF list[i].id = sourceId THEN [list[i] EXCEPT !.parentId = 0]
                       ELSE list[i]]
        remaining == SelectSeq(updated, LAMBDA b : b.parentId = oldParentId) IN
    IF oldParentId # 0 /\ Len(remaining) = 1 /\ findIndex(updated, oldParentId) # 0 - 1
    THEN LET folder == findBookmark(updated, oldParentId)
             moved == [i \in DOMAIN updated |->
                          IF updated[i].parentId = oldParentId
                          THEN [updated[i] EXCEPT !.parentId = folder.parentId]
                          ELSE updated[i]] IN
         SelectSeq(moved, LAMBDA b : b.id # oldParentId)
    ELSE updated

\* idsToDelete of deleteBookmark: id and the bookmarks below it
RECURSIVE idsToDelete(_, _)
idsToDelete(list, ids) ==
    LET more == ids \cup {list[i].id : i \in {j \in DOMAIN list : list[j].parentId \in ids}} IN
    IF more = ids THEN ids ELSE idsToDelete(list, more)

\* The bookmarks the user can start dragging: the root items, the children
\* a folder's preview shows, or the children the expanded folder shows
ShownInPreview(list, folderId) ==
    LET children == getFolderChildren(list, folderId) IN
    IF Len(children) <= 4 THEN children ELSE SubSeq(children, 1, 3)

expandedFolderChildren(list, expanded) ==
    LET children == getFolderChildren(list, expanded) IN SubSeq(children, 4, Len(children))

Draggable(list, expanded) ==
    IF expanded # 0 /\ findIndex(list, expanded) # 0 - 1
    THEN BookmarkIds(expandedFolderChildren(list, expanded))
    ELSE BookmarkIds(rootItems(list))
           \cup UNION {BookmarkIds(ShownInPreview(list, f.id)) :
                          f \in {b \in {list[i] : i \in DOMAIN list} :
                                    b.parentId = 0 /\ b.type = "folder"}}

\* The backdrop of the expanded folder covers the widget
Covered == expandedFolder # 0 /\ findIndex(bookmarks, expandedFolder) # 0 - 1

\* handleDragOver(e, targetId, isGapHover): closest is the item whose centre
\* is nearest to the pointer (0 when no item is rendered)
handleDragOver(targetId, isGapHover, closest, y) ==
    LET effectiveTargetId == IF isGapHover /\ editMode /\ draggedId # 0 /\ closest # 0
                             THEN closest ELSE targetId
        isTargetFolder == /\ effectiveTargetId # 0
                          /\ findBookmark(bookmarks, effectiveTargetId).type = "folder"
        isDraggedFolder == /\ findIndex(bookmarks, draggedId) # 0 - 1
                           /\ findBookmark(bookmarks, draggedId).type = "folder"
        inFolderZone == isInFolderZone(effectiveTargetId, isGapHover, editMode, y)
        changed == effectiveTargetId # lastHoverTarget
        cleared == IF changed THEN NoTimer ELSE folderHoverTimer
        managed == /\ editMode /\ draggedId # 0 /\ effectiveTargetId # 0
                   /\ draggedId # effectiveTargetId
                   /\ ~isTargetFolder /\ ~isGapHover /\ ~isDraggedFolder IN
    /\ lastHoverTarget' = effectiveTargetId
    /\ folderHoverTimer' =
          IF ~managed THEN cleared
          ELSE IF ~inFolderZone THEN NoTimer
          ELSE IF cleared.id = 0 /\ folderPreviewTarget = 0
          THEN [id |-> effectiveTargetId, pending |-> TRUE]
          ELSE cleared
    /\ folderPreviewTarget' =
          IF changed \/ (managed /\ ~inFolderZone) THEN 0 ELSE folderPreviewTarget
    /\ bookmarks' = liveReorder(bookmarks, draggedId, editMode, folderPreviewTarget,
                                effectiveTargetId, isGapHover, y)
    /\ pointer' = [target |-> effectiveTargetId, gap |-> isGapHover, y |-> y]
    /\ UNCHANGED <<draggedId, dataTransfer, editMode, expandedFolder, dateNow,
                   exceptBookmark>>

\* The items renderItem renders: the root items
Rendered == BookmarkIds(rootItems(bookmarks))

\* Hovering is followed for lists of up to MaxBookmarkId bookmarks
DragOverItem ==
    \E targetId \in Rendered, y \in RelativeYs :
        /\ dataTransfer # 0 /\ ~Covered
        /\ Len(bookmarks) <= MaxBookmarkId
        /\ handleDragOver(targetId, FALSE, 0, y)

DragOverGap ==
    \E closest \in IF Rendered = {} THEN {0} ELSE Rendered, y \in RelativeYs :
        /\ dataTransfer # 0 /\ ~Covered
        /\ Len(bookmarks) <= MaxBookmarkId
        /\ handleDragOver(0, TRUE, closest, y)

\* The timeout of folderHoverTimer expires, 400 ms after it was set
FolderHoverTimeout ==
    /\ folderHoverTimer.pending
    /\ folderPreviewTarget' = folderHoverTimer.id
    /\ folderHoverTimer' = [folderHoverTimer EXCEPT !.pending = FALSE]
    /\ UNCHANGED <<bookmarks, draggedId, dataTransfer, editMode, lastHoverTarget,
                   expandedFolder, dateNow, pointer, exceptBookmark>>

\* handleDragStart, and the onDragStart of a child in a folder's preview
BookmarkDragStart ==
    \E id \in Draggable(bookmarks, expandedFolder) :
        /\ editMode /\ dataTransfer = 0
        /\ draggedId' = id
        /\ dataTransfer' = id
        /\ pointer' = NoPointer
        /\ UNCHANGED <<bookmarks, editMode, folderPreviewTarget, folderHoverTimer,
                       lastHoverTarget, expandedFolder, dateNow, exceptBookmark>>

\* A drop on the item targetId, or on the gap when targetId is 0
BookmarkDrop(targetId) ==
    LET r == handleDropBookmark(bookmarks, dataTransfer, targetId, FALSE,
                                folderPreviewTarget, editMode, expandedFolder, dateNow)
        made == dateNow \in BookmarkIds(r.list) IN
    /\ dataTransfer # 0 /\ ~Covered
    /\ made => dateNow <= MaxBookmarkId
    /\ bookmarks' = r.list
    /\ expandedFolder' = IF r.closes THEN 0 ELSE expandedFolder
    /\ dateNow' = IF made THEN dateNow + 1 ELSE dateNow
    /\ draggedId' = 0
    /\ dataTransfer' = 0
    /\ folderHoverTimer' = NoTimer
    /\ folderPreviewTarget' = 0
    /\ lastHoverTarget' = 0
    /\ pointer' = NoPointer
    /\ UNCHANGED <<editMode, exceptBookmark>>

DropOnBookmark == \E targetId \in Rendered : BookmarkDrop(targetId)

DropOnGap == BookmarkDrop(0)

DropOnBackdrop ==
    /\ dataTransfer # 0 /\ Covered
    /\ findIndex(bookmarks, dataTransfer) # 0 - 1
    /\ bookmarks' = backdropDrop(bookmarks, dataTransfer)
    /\ expandedFolder' = 0
    /\ draggedId' = 0
    /\ dataTransfer' = 0
    /\ pointer' = NoPointer
    /\ UNCHANGED <<editMode, folderPreviewTarget, folderHoverTimer, lastHoverTarget, dateNow,
                   exceptBookmark>>

\* The drag ends without a drop on the widget
DragCancelled ==
    /\ dataTransfer # 0
    /\ dataTransfer' = 0
    /\ pointer' = NoPointer
    /\ UNCHANGED <<bookmarks, draggedId, editMode, folderPreviewTarget, folderHoverTimer,
                   lastHoverTarget, expandedFolder, dateNow, exceptBookmark>>

\* handleSubmit for a new link (addType is 'link', editingId is null)
handleSubmit ==
    /\ dataTransfer = 0 /\ ~editMode /\ ~Covered
    /\ dateNow <= MaxBookmarkId
    /\ bookmarks' = Append(bookmarks, BookmarkItem(dateNow, "link", expandedFolder))
    /\ dateNow' = dateNow + 1
    /\ UNCHANGED <<draggedId, dataTransfer, editMode, folderPreviewTarget, folderHoverTimer,
                   lastHoverTarget, expandedFolder, pointer, exceptBookmark>>

deleteBookmark ==
    \E id \in Rendered :
        LET ids == idsToDelete(bookmarks, {id}) IN
        /\ dataTransfer = 0 /\ editMode /\ ~Covered
        /\ bookmarks' = SelectSeq(bookmarks, LAMBDA b : b.id \notin ids)
        /\ expandedFolder' = IF expandedFolder \in ids THEN 0 ELSE expandedFolder
        /\ UNCHANGED <<draggedId, dataTransfer, editMode, folderPreviewTarget,
                       folderHoverTimer, lastHoverTarget, dateNow, pointer, exceptBookmark>>

\* handlePressStart's timeout: a press of 500 ms on an item
LongPress ==
    /\ dataTransfer = 0 /\ ~editMode
    /\ Draggable(bookmarks, expandedFolder) # {}
    /\ editMode' = TRUE
    /\ UNCHANGED <<bookmarks, draggedId, dataTransfer, folderPreviewTarget, folderHoverTimer,
                   lastHoverTarget, expandedFolder, dateNow, pointer, exceptBookmark>>

\* The Done button, or a click in the widget
LeaveEditMode ==
    /\ dataTransfer = 0 /\ editMode /\ ~Covered
    /\ editMode' = FALSE
    /\ UNCHANGED <<bookmarks, draggedId, dataTransfer, folderPreviewTarget, folderHoverTimer,
                   lastHoverTarget, expandedFolder, dateNow, pointer, exceptBookmark>>

\* A click on a folder's preview that expands it: the preview of an empty
\* folder, or the mini grid of a folder of five or more
ExpandFolder ==
    \E folderId \in Rendered :
        /\ dataTransfer = 0 /\ ~editMode /\ ~Covered
        /\ findBookmark(bookmarks, folderId).type = "folder"
        /\ Len(getFolderChildren(bookmarks, folderId)) \notin 1..4
        /\ expandedFolder' = folderId
        /\ UNCHANGED <<bookmarks, draggedId, dataTransfer, editMode, folderPreviewTarget,
                       folderHoverTimer, lastHoverTarget, dateNow, pointer, exceptBookmark>>

\* A click on the backdrop: it closes the folder, and bubbles to the
\* widget's onClick, which leaves the edit mode
CloseFolder ==
    /\ dataTransfer = 0 /\ Covered
    /\ expandedFolder' = 0
    /\ editMode' = FALSE
    /\ UNCHANGED <<bookmarks, draggedId, dataTransfer, folderPreviewTarget, folderHoverTimer,
                   lastHoverTarget, dateNow, pointer, exceptBookmark>>

\* Bookmarks found in localStorage: a folder of five links
StoredBookmarks ==
    <<BookmarkItem(1, "folder", 0)>> \o [i \in 1..5 |-> BookmarkItem(i + 1, "link", 1)]

InitBookmark ==
    /\ InitDashboard
    /\ IdleProxy
    /\ IdleTodo
    /\ IdleCalendarAndReading
    /\ bookmarks \in {<<>>, StoredBookmarks}
    /\ dateNow = Len(bookmarks) + 1
    /\ draggedId = 0
    /\ dataTransfer = 0
    /\ editMode = FALSE
    /\ folderPreviewTarget = 0
    /\ folderHoverTimer = NoTimer
    /\ lastHoverTarget = 0
    /\ expandedFolder = 0
    /\ pointer = NoPointer

NextBookmark ==
    \/ handleSubmit
    \/ deleteBookmark
    \/ LongPress
    \/ LeaveEditMode
    \/ ExpandFolder
    \/ CloseFolder
    \/ BookmarkDragStart
    \/ DragOverItem
    \/ DragOverGap
    \/ FolderHoverTimeout
    \/ DropOnBookmark
    \/ DropOnGap
    \/ DropOnBackdrop
    \/ DragCancelled

SpecBookmark == InitBookmark /\ [][NextBookmark]_vars

\* Every folder of the list has two children or more
NoSmallFolder(list) ==
    \A i \in DOMAIN list :
        list[i].type = "folder" => Len(getFolderChildren(list, list[i].id)) >= 2

\* The bookmarks after a drop of the dragged bookmark on the item targetId,
\* or on the gap when targetId is 0
AfterDrop(targetId) ==
    handleDropBookmark(bookmarks, dataTransfer, targetId, FALSE, folderPreviewTarget,
                       editMode, expandedFolder, dateNow).list

\* C14 (as claimed): wherever the bookmark being dragged is dropped (on an
\* item, on a folder, on the empty area, or on the backdrop of the expanded
\* folder), no folder with fewer than two children remains afterwards.
C14_FoldersDissolve ==
    dataTransfer # 0 =>
        IF Covered
        THEN findIndex(bookmarks, dataTransfer) # 0 - 1
                => NoSmallFolder(backdropDrop(bookmarks, dataTransfer))
        ELSE \A targetId \in Rendered \cup {0} : NoSmallFolder(AfterDrop(targetId))

\* In this list a folder made at hour newFolderId holds exactly S and T
HoldsExactly(list, newFolderId, S, T) ==
    /\ findIndex(list, newFolderId) # 0 - 1
    /\ findBookmark(list, newFolderId).type = "folder"
    /\ BookmarkIds(getFolderChildren(list, newFolderId)) = {S, T}

IsLink(list, id) == findIndex(list, id) # 0 - 1 /\ findBookmark(list, id).type = "link"

\* C15 (as claimed): a drop of the link S on the link T makes a folder of
\* exactly S and T if and only if T's folder preview is showing at the drop;
\* and the preview shows only while S, not a folder and in edit mode, is
\* over the inner 60% of T's height: it is cancelled when the hover target
\* changes or the pointer leaves that zone.
C15_FolderOnlyOnPreview ==
    (dataTransfer # 0 /\ ~Covered) =>
        /\ \A T \in Rendered :
              (IsLink(bookmarks, dataTransfer) /\ IsLink(bookmarks, T) /\ T # dataTransfer)
                 => (HoldsExactly(AfterDrop(T), dateNow, dataTransfer, T)
                        <=> folderPreviewTarget = T)
        /\ folderPreviewTarget # 0 =>
              /\ editMode
              /\ IsLink(bookmarks, draggedId)
              /\ pointer.target = folderPreviewTarget
              /\ isInFolderZone(pointer.target, pointer.gap, editMode, pointer.y)

\* After the hover S is next to T: right before it, or right after it when
\* T is a folder and the pointer is in its lower half
PlacedAt(list, S, T, y) ==
    IF findBookmark(list, T).type = "folder" /\ y * 10 > ItemHeight * 5
    THEN findIndex(list, S) = findIndex(list, T) + 1
    ELSE findIndex(list, S) + 1 = findIndex(list, T)

\* What the claim says of a hover of S over T at height y: S is placed, the
\* others keep their order, and the same hover again changes nothing
ReorderedBy(S, T, isGapHover, y) ==
    LET after == liveReorder(bookmarks, S, editMode, folderPreviewTarget, T, isGapHover, y)
        again == liveReorder(after, S, editMode, folderPreviewTarget, T, isGapHover, y) IN
    /\ PlacedAt(after, S, T, y)
    /\ SelectSeq(after, LAMBDA b : b.id # S) = SelectSeq(bookmarks, LAMBDA b : b.id # S)
    /\ again = after

\* The hovers of the bookmark being dragged over another item in a reorder
\* zone: over the gap, or in the top or bottom 20% of the item
ReorderHovers ==
    {h \in [target : Rendered, gap : BOOLEAN, y : RelativeYs] :
        /\ h.target # draggedId
        /\ ~isInFolderZone(h.target, h.gap, editMode, h.y)}

Dragging ==
    /\ dataTransfer # 0 /\ ~Covered /\ editMode
    /\ draggedId = dataTransfer /\ findIndex(bookmarks, draggedId) # 0 - 1

\* C18 (as claimed): in edit mode, a hover of the dragged bookmark S over
\* another item T in a reorder zone moves S to immediately before T
\* (immediately after T when T is a folder and the pointer is in its lower
\* half), the others keeping their order, and repeating it changes nothing.
C18_LiveReorder ==
    Dragging => \A h \in ReorderHovers : ReorderedBy(draggedId, h.target, h.gap, h.y)

\* C18 (amended): the same, for hovers in a render in which no folder
\* preview is showing; while one is showing the hover moves nothing.
C18_LiveReorderWithoutPreview ==
    (Dragging /\ folderPreviewTarget = 0)
        => \A h \in ReorderHovers : ReorderedBy(draggedId, h.target, h.gap, h.y)

\* C18's case: the last hover was in a reorder zone of another item, no
\* preview was showing, and it moved S out of its folder to right before T
C18_Witness ==
    /\ Dragging /\ folderPreviewTarget = 0
    /\ pointer \in ReorderHovers
    /\ Len(bookmarks) >= 3
    /\ PlacedAt(bookmarks, draggedId, pointer.target, pointer.y)
    /\ \E i \in DOMAIN bookmarks :
          bookmarks[i].type = "folder" /\ Len(getFolderChildren(bookmarks, bookmarks[i].id)) = 1

(***************************************************************************)
(* CalendarWidget.  A date string 'YYYY-MM-DD' is the number of its day,   *)
(* day 1 being the first of the displayed month and day 0 a Sunday; date   *)
(* strings of one format compare as their days do.  A Date is the local    *)
(* time in hours, as in the TodoWidget.  An event's endDate and groupId    *)
(* are 0 when undefined, and so is the time of an all-day item.  Ids are   *)
(* numbers in the order of the Date.now() they were made at.               *)
(***************************************************************************)
MaxDay == 8
MaxEvents == 3
MaxEventId == 7

\* The cells the pointer goes to, the browser's time zones, the times of day
CellDays == {1, 2, MaxDay}
MonthDays == 1..MaxDay
CalendarZones == {0 - 5, 0, 9}
Times == {0, 9}

\* The todos of localStorage when the widget mounts
StoredTodos ==
    <<[id |-> 1, dueDate |-> 1, time |-> 0, completed |-> FALSE],
      [id |-> 2, dueDate |-> 1, time |-> 9, completed |-> TRUE],
      [id |-> 3, dueDate |-> 2, time |-> 0, completed |-> FALSE]>>

CalendarEvent(id, date, endDate, time, groupId) ==
    [id |-> id, date |-> date, endDate |-> endDate, time |-> time, groupId |-> groupId]

Max(S) == CHOOSE x \in S : \A y \in S : y <= x

\* Date.now() when the next event is saved: later than every id made so far
FreshEventId ==
    1 + Max({0} \cup {events[i].id : i \in DOMAIN events}
                \cup {events[i].groupId : i \in DOMAIN events}
                \cup {calendarTodos[i].id : i \in DOMAIN calendarTodos})

\* getFullYear, getMonth and getDate of a Date, as the date string they make
localDateStr(dateObj) == dateObj \div HoursPerDay

getDayOfWeek(dateStr, zone) == localDateStr(newDate(dateStr, zone)) % DaysPerWeek

localeCompare(a, b) == IF a < b THEN 0 - 1 ELSE IF a > b THEN 1 ELSE 0

sortItemsByPriority(a, b) ==
    IF a.isMultiDay /\ ~b.isMultiDay THEN 0 - 1
    ELSE IF ~a.isMultiDay /\ b.isMultiDay THEN 1
    ELSE IF a.time = 0 /\ b.time = 0 THEN localeCompare(a.id, b.id)
    ELSE IF a.time = 0 THEN 0 - 1
    ELSE IF b.time = 0 THEN 1
    ELSE IF a.time = b.time THEN localeCompare(a.id, b.id)
    ELSE localeCompare(a.time, b.time)

\* Array.prototype.sort with sortItemsByPriority
RECURSIVE SortItems(_)
SortItems(items) ==
    IF items = <<>> THEN <<>>
    ELSE LET rest == SortItems(Tail(items))
             item == Head(items)
             before == SelectSeq(rest, LAMBDA r : sortItemsByPriority(r, item) <= 0)
             after == SelectSeq(rest, LAMBDA r : sortItemsByPriority(r, item) > 0)
         IN  before \o <<item>> \o after

DisplayEvent(e) ==
    [id |-> e.id, type |-> "event", time |-> e.time,
     isMultiDay |-> e.endDate # 0 /\ e.endDate # e.date]

DisplayTodo(t) == [id |-> t.id, type |-> "todo", time |-> t.time, isMultiDay |-> FALSE]

MapSeq(seq, Op(_)) == [i \in DOMAIN seq |-> Op(seq[i])]

CoversDate(e, dateStr) ==
    IF e.endDate # 0 THEN dateStr >= e.date /\ dateStr <= e.endDate
    ELSE e.date = dateStr

getItemsForDate_completedToo(evts, tds, dateStr) ==
    MapSeq(SelectSeq(evts, LAMBDA e : CoversDate(e, dateStr)), DisplayEvent)
    \o MapSeq(SelectSeq(tds, LAMBDA t : t.dueDate = dateStr), DisplayTodo)

getItemsForDate(evts, tds, dateStr) ==
    MapSeq(SelectSeq(evts, LAMBDA e : CoversDate(e, dateStr)), DisplayEvent)
    \o MapSeq(SelectSeq(tds, LAMBDA t : t.dueDate = dateStr /\ ~t.completed), DisplayTodo)

\* The bars of the cell of a day of the displayed month
MaxVisible == 3
visibleItems(evts, tds, dateStr) ==
    LET items == SortItems(getItemsForDate(evts, tds, dateStr))
    IN  SubSeq(items, 1, IF Len(items) < MaxVisible THEN Len(items) ELSE MaxVisible)

\* The rows of the day details
dayEvents(evts, dateStr) ==
    SortItems(MapSeq(SelectSeq(evts, LAMBDA e : CoversDate(e, dateStr)), DisplayEvent))

findEvent(evts, id) ==
    IF \E i \in DOMAIN evts : evts[i].id = id
    THEN evts[CHOOSE i \in DOMAIN evts : evts[i].id = id]
    ELSE NoEvent

\* What the modal's handleSave passes to onSave
EventData(startDate, endDate, time) ==
    [date |-> startDate, endDate |-> IF endDate # startDate THEN endDate ELSE 0,
     time |-> time]

\* The loop for (d = new Date(start); d <= end; d.setDate(d.getDate() + 7))
RECURSIVE WeeklyDates(_, _)
WeeklyDates(d, end) ==
    IF d <= end THEN <<localDateStr(d)>> \o WeeklyDates(d + DaysPerWeek * HoursPerDay, end)
    ELSE <<>>

handleSaveEvent(evts, range, editing, eventData, zone, now) ==
    IF range.type = "vertical" /\ editing = NoEvent
    THEN LET dates == WeeklyDates(newDate(range.start, zone), newDate(range.end, zone))
         IN  evts \o [i \in DOMAIN dates |->
                        CalendarEvent(now + i - 1, dates[i], 0, eventData.time, now)]
    ELSE IF editing # NoEvent
    THEN [i \in DOMAIN evts |->
            IF evts[i].id = editing.id
            THEN CalendarEvent(evts[i].id, eventData.date, eventData.endDate,
                               eventData.time, evts[i].groupId)
            ELSE evts[i]]
    ELSE evts \o <<CalendarEvent(now, eventData.date, eventData.endDate, eventData.time, 0)>>

handleDeleteEvent(evts, editing) ==
    IF editing # NoEvent
    THEN IF editing.groupId # 0
         THEN SelectSeq(evts, LAMBDA evt : evt.groupId # editing.groupId)
         ELSE SelectSeq(evts, LAMBDA evt : evt.id # editing.id)
    ELSE evts

\* Neither modal covers the grid
GridInReach == selectedRange = NoRange /\ viewDate = NoDate

Range(start, end, type) == [start |-> start, end |-> end, type |-> type]

handleMouseDown ==
    /\ GridInReach
    /\ \E dateStr \in CellDays :
          /\ dragStart' = dateStr
          /\ dragEnd' = dateStr
    /\ dragHasLeftColumn' = FALSE
    /\ UNCHANGED <<events, calendarTodos, selectedRange, editingEvent, viewDate,
                   exceptCalendar>>

handleMouseEnter ==
    /\ GridInReach
    /\ dragStart # NoDate
    /\ \E dateStr \in CellDays :
          /\ dragEnd' = dateStr
          /\ dragHasLeftColumn' =
                (dragHasLeftColumn \/ getDayOfWeek(dateStr, tz) # getDayOfWeek(dragStart, tz))
    /\ UNCHANGED <<events, calendarTodos, selectedRange, editingEvent, dragStart, viewDate,
                   exceptCalendar>>

handleMouseUp ==
    /\ GridInReach
    /\ dragStart # NoDate /\ dragEnd # NoDate
    /\ LET start == IF dragStart < dragEnd THEN dragStart ELSE dragEnd
           end == IF dragStart < dragEnd THEN dragEnd ELSE dragStart
           isVertical == /\ getDayOfWeek(start, tz) = getDayOfWeek(end, tz)
                         /\ start # end
                         /\ ~dragHasLeftColumn
       IN  selectedRange' = Range(start, end, IF isVertical THEN "vertical" ELSE "range")
    /\ dragStart' = NoDate
    /\ dragEnd' = NoDate
    /\ dragHasLeftColumn' = FALSE
    /\ UNCHANGED <<events, calendarTodos, editingEvent, viewDate, exceptCalendar>>

CalendarContextMenu ==
    /\ GridInReach
    /\ \E dateStr \in CellDays : viewDate' = dateStr
    /\ dragStart' = NoDate
    /\ dragEnd' = NoDate
    /\ dragHasLeftColumn' = FALSE
    /\ UNCHANGED <<events, calendarTodos, selectedRange, editingEvent, exceptCalendar>>

\* A click on a bar of a cell: handleMouseDown and handleMouseUp of the cell
\* have run before it
handleEventClick ==
    /\ viewDate = NoDate
    /\ editingEvent = NoEvent
    /\ \E dateStr \in CellDays :
          /\ selectedRange = Range(dateStr, dateStr, "range")
          /\ \E i \in DOMAIN visibleItems(events, calendarTodos, dateStr) :
                LET item == visibleItems(events, calendarTodos, dateStr)[i]
                    event == findEvent(events, item.id)
                IN  /\ item.type = "event"
                    /\ event # NoEvent
                    /\ editingEvent' = event
                    /\ selectedRange' =
                          Range(event.date,
                                IF event.endDate # 0 THEN event.endDate ELSE event.date,
                                "range")
    /\ UNCHANGED <<events, calendarTodos, dragStart, dragEnd, dragHasLeftColumn, viewDate,
                   exceptCalendar>>

CloseDayDetails ==
    /\ viewDate # NoDate
    /\ viewDate' = NoDate
    /\ UNCHANGED <<events, calendarTodos, selectedRange, editingEvent, dragStart, dragEnd,
                   dragHasLeftColumn, exceptCalendar>>

onAddEvent ==
    /\ viewDate # NoDate
    /\ selectedRange' = Range(viewDate, viewDate, "range")
    /\ viewDate' = NoDate
    /\ UNCHANGED <<events, calendarTodos, editingEvent, dragStart, dragEnd,
                   dragHasLeftColumn, exceptCalendar>>

onEditEvent ==
    /\ viewDate # NoDate
    /\ \E i \in DOMAIN dayEvents(events, viewDate) :
          LET event == findEvent(events, dayEvents(events, viewDate)[i].id)
          IN  /\ editingEvent' = event
              /\ selectedRange' =
                    Range(event.date,
                          IF event.endDate # 0 THEN event.endDate ELSE event.date, "range")
    /\ viewDate' = NoDate
    /\ UNCHANGED <<events, calendarTodos, dragStart, dragEnd, dragHasLeftColumn,
                   exceptCalendar>>

\* The modal's Save, with a title
SaveEvent ==
    /\ selectedRange # NoRange
    /\ \E time \in Times :
          events' = handleSaveEvent(events, selectedRange, editingEvent,
                                    EventData(selectedRange.start, selectedRange.end, time),
                                    tz, FreshEventId)
    /\ Len(events') <= MaxEvents
    /\ \A i \in DOMAIN events' : events'[i].id <= MaxEventId
    /\ selectedRange' = NoRange
    /\ editingEvent' = NoEvent
    /\ UNCHANGED <<calendarTodos, dragStart, dragEnd, dragHasLeftColumn, viewDate,
                   exceptCalendar>>

\* The modal's Delete, there when an event is being edited
DeleteEvent ==
    /\ selectedRange # NoRange
    /\ editingEvent # NoEvent
    /\ events' = handleDeleteEvent(events, editingEvent)
    /\ selectedRange' = NoRange
    /\ editingEvent' = NoEvent
    /\ UNCHANGED <<calendarTodos, dragStart, dragEnd, dragHasLeftColumn, viewDate,
                   exceptCalendar>>

handleCloseModal ==
    /\ selectedRange # NoRange
    /\ selectedRange' = NoRange
    /\ editingEvent' = NoEvent
    /\ UNCHANGED <<events, calendarTodos, dragStart, dragEnd, dragHasLeftColumn, viewDate,
                   exceptCalendar>>

\* The widget with no event yet, in a browser of some time zone
InitCalendar ==
    /\ InitDashboard
    /\ IdleProxy
    /\ IdleBookmark
    /\ IdleReading
    /\ todos = <<>>
    /\ parentTodoId = 0
    /\ isModalOpen = FALSE
    /\ clock = 0
    /\ tz \in CalendarZones
    /\ completedAt = <<>>
    /\ events = <<>>
    /\ calendarTodos = StoredTodos
    /\ selectedRange = NoRange
    /\ editingEvent = NoEvent
    /\ dragStart = NoDate
    /\ dragEnd = NoDate
    /\ dragHasLeftColumn = FALSE
    /\ viewDate = NoDate

NextCalendar ==
    \/ handleMouseDown
    \/ handleMouseEnter
    \/ handleMouseUp
    \/ CalendarContextMenu
    \/ handleEventClick
    \/ CloseDayDetails
    \/ onAddEvent
    \/ onEditEvent
    \/ SaveEvent
    \/ DeleteEvent
    \/ handleCloseModal

SpecCalendar == InitCalendar /\ [][NextCalendar]_vars

\* The dates start, start + 7 days, ... up to end
SeriesDates(start, end) == {d \in start..end : (d - start) % DaysPerWeek = 0}

\* The events that saving a new event with the selection would add
SavedNow ==
    handleSaveEvent(events, selectedRange, NoEvent,
                    EventData(selectedRange.start, selectedRange.end, 0), tz, FreshEventId)
AddedNow == SubSeq(SavedNow, Len(events) + 1, Len(SavedNow))

\* The days an event is on
DaysOf(e) == IF e.endDate # 0 THEN e.date..e.endDate ELSE {e.date}

\* C17: saving a new event after a vertical drag adds exactly one single-day
\* event on each of start, start + 7 days, ... up to end, all of one group id
\* that no other event has; saving after any other selection adds exactly
\* one event, on the days start..end; and deleting an event that has a group
\* id removes the events of its group and no other.
C17_WeeklySeriesAndGroupDelete ==
    /\ (selectedRange # NoRange /\ editingEvent = NoEvent) =>
          /\ SubSeq(SavedNow, 1, Len(events)) = events
          /\ IF selectedRange.type = "vertical"
             THEN /\ {AddedNow[i].date : i \in DOMAIN AddedNow}
                        = SeriesDates(selectedRange.start, selectedRange.end)
                  /\ Len(AddedNow) =
                        Cardinality(SeriesDates(selectedRange.start, selectedRange.end))
                  /\ \A i \in DOMAIN AddedNow :
                        /\ AddedNow[i].endDate = 0
                        /\ AddedNow[i].groupId # 0
                        /\ AddedNow[i].groupId = AddedNow[1].groupId
                        /\ \A j \in DOMAIN events : events[j].groupId # AddedNow[i].groupId
             ELSE /\ Len(AddedNow) = 1
                  /\ DaysOf(AddedNow[1]) = selectedRange.start..selectedRange.end
    /\ (editingEvent # NoEvent /\ editingEvent.groupId # 0) =>
          LET left == handleDeleteEvent(events, editingEvent)
          IN  /\ \A i \in DOMAIN left : left[i].groupId # editingEvent.groupId
              /\ left = SelectSeq(events, LAMBDA e : e.groupId # editingEvent.groupId)

\* The items the claim names for a date, as (type, id) pairs
ItemsOfDate(d) ==
    {<<"event", events[i].id>> : i \in {j \in DOMAIN events :
        IF events[j].endDate # 0 THEN events[j].date <= d /\ d <= events[j].endDate
        ELSE events[j].date = d}}
    \cup {<<"todo", calendarTodos[i].id>> : i \in {j \in DOMAIN calendarTodos :
            calendarTodos[j].dueDate = d /\ ~calendarTodos[j].completed}}

Pairs(items) == {<<items[i].type, items[i].id>> : i \in DOMAIN items}

\* An item is flagged multi-day iff its endDate is set and differs from its date
FlaggedRight(items) ==
    \A i \in DOMAIN items :
       items[i].isMultiDay =
          (/\ items[i].type = "event"
           /\ \E j \in DOMAIN events :
                 /\ events[j].id = items[i].id
                 /\ events[j].endDate # 0
                 /\ events[j].endDate # events[j].date)

MaxReadings == 2

SWIPE_THRESHOLD == 120
CommitDistance == 10
DismissDelay == 300
TickMs == 100

\* Where a gesture starts and where the pointer goes
StartXs == {100}
StartYs == {100}
ClientXs == {0 - 30, 105, 111, 220, 221}
ClientYs == {100, 111}

Abs(n) == IF n < 0 THEN 0 - n ELSE n

deleteReading(prev, id) == SelectSeq(prev, LAMBDA r : r # id)

\* The ref and the state after processMove
processMove(ref, swipe, clientX, clientY) ==
    IF ref = NoStart THEN [ref |-> ref, swipe |-> swipe]
    ELSE LET dx == clientX - ref.startX
             dy == clientY - ref.startY
             moved == [id |-> ref.id, offsetX |-> dx]
         IN  IF ~ref.committed
             THEN IF Abs(dy) > Abs(dx) THEN [ref |-> NoStart, swipe |-> NoSwipe]
                  ELSE IF Abs(dx) > CommitDistance
                  THEN [ref |-> [ref EXCEPT !.committed = TRUE], swipe |-> moved]
                  ELSE [ref |-> ref, swipe |-> swipe]
             ELSE [ref |-> ref, swipe |-> moved]

\* Whether processEnd dismisses the card of activeSwipeRef.current
processEnd(swipe) == swipe # NoSwipe /\ Abs(swipe.offsetX) > SWIPE_THRESHOLD

\* The first decisive movement of a gesture, once it has made one
FirstMovement(g, x, y) ==
    IF g.first # "none" THEN g.first
    ELSE IF Abs(y - g.startY) > Abs(x - g.startX) THEN "vertical"
    ELSE IF Abs(x - g.startX) > CommitDistance THEN "horizontal"
    ELSE "none"

\* The gesture was committed as horizontal and is beyond the threshold
Qualifies(g) == g.first = "horizontal" /\ Abs(g.x - g.startX) > SWIPE_THRESHOLD

\* A finger or the mouse goes down on a card that is not being dismissed
StartGesture(kind) ==
    /\ gesture = NoGesture
    /\ \E i \in DOMAIN readings, x \in StartXs, y \in StartYs :
          /\ \A t \in timeouts : t.id # readings[i]
          /\ swipeStartRef' = [id |-> readings[i], startX |-> x, startY |-> y,
                               committed |-> FALSE]
          /\ gesture' = [id |-> readings[i], kind |-> kind, startX |-> x, startY |-> y,
                         x |-> x, y |-> y, first |-> "none"]
    /\ UNCHANGED <<readings, activeSwipe, activeSwipeRef, dismissing, timeouts, readingNow,
                   exceptReading>>

MoveGesture(kind) ==
    /\ gesture # NoGesture
    /\ gesture.kind = kind
    /\ \E clientX \in ClientXs, clientY \in ClientYs :
          LET after == processMove(swipeStartRef, activeSwipe, clientX, clientY)
          IN  /\ swipeStartRef' = after.ref
              /\ activeSwipe' = after.swipe
              /\ gesture' = [gesture EXCEPT !.x = clientX, !.y = clientY,
                                            !.first = FirstMovement(gesture, clientX, clientY)]
    /\ UNCHANGED <<readings, activeSwipeRef, dismissing, timeouts, readingNow,
                   exceptReading>>

EndGesture(kind) ==
    /\ gesture # NoGesture
    /\ gesture.kind = kind
    /\ LET swipe == activeSwipeRef
           dismiss == processEnd(swipe)
       IN  /\ dismissing' =
                 IF dismiss
                 THEN [id |-> swipe.id, direction |-> IF swipe.offsetX > 0 THEN 1 ELSE 0 - 1]
                 ELSE dismissing
           /\ timeouts' =
                 IF dismiss
                 THEN timeouts \cup {[id |-> swipe.id, elapsed |-> 0,
                                      qualified |-> swipe.id = gesture.id /\ Qualifies(gesture)]}
                 ELSE timeouts
    /\ activeSwipe' = NoSwipe
    /\ swipeStartRef' = NoStart
    /\ gesture' = NoGesture
    /\ UNCHANGED <<readings, activeSwipeRef, readingNow, exceptReading>>

handleTouchStart == StartGesture("touch")
handleTouchMove == MoveGesture("touch")
handleTouchEnd == EndGesture("touch")
ReadingMouseDown == StartGesture("mouse")
onMove == MoveGesture("mouse")
onUp == EndGesture("mouse")

\* The effect of [activeSwipe]
SyncActiveSwipeRef ==
    /\ activeSwipeRef # activeSwipe
    /\ activeSwipeRef' = activeSwipe
    /\ UNCHANGED <<readings, activeSwipe, dismissing, swipeStartRef, timeouts, readingNow,
                   gesture, exceptReading>>

\* The callback of the setTimeout of processEnd
DismissTimeout ==
    /\ \E t \in timeouts :
          /\ t.elapsed = DismissDelay
          /\ readings' = deleteReading(readings, t.id)
          /\ timeouts' = timeouts \ {t}
    /\ dismissing' = NoDismissing
    /\ UNCHANGED <<activeSwipe, activeSwipeRef, swipeStartRef, readingNow, gesture,
                   exceptReading>>

\* TickMs pass; a timeout that is due runs first
ReadingTick ==
    /\ timeouts # {}
    /\ \A t \in timeouts : t.elapsed < DismissDelay
    /\ timeouts' = {[t EXCEPT !.elapsed = @ + TickMs] : t \in timeouts}
    /\ UNCHANGED <<readings, activeSwipe, activeSwipeRef, dismissing, swipeStartRef,
                   readingNow, gesture, exceptReading>>

handleAddReading ==
    /\ readingNow <= MaxReadings
    /\ readings' = Append(readings, readingNow)
    /\ readingNow' = readingNow + 1
    /\ UNCHANGED <<activeSwipe, activeSwipeRef, dismissing, swipeStartRef, timeouts,
                   gesture, exceptReading>>

\* The widget with the list of localStorage
InitReading ==
    /\ InitDashboard
    /\ IdleProxy
    /\ IdleTodo
    /\ IdleBookmark
    /\ IdleCalendar
    /\ readings = <<1>>
    /\ readingNow = Len(readings) + 1
    /\ ReadingAtRest

NextReading ==
    \/ handleAddReading
    \/ handleTouchStart
    \/ handleTouchMove
    \/ handleTouchEnd
    \/ ReadingMouseDown
    \/ onMove
    \/ onUp
    \/ SyncActiveSwipeRef
    \/ DismissTimeout
    \/ ReadingTick

SpecReading == InitReading /\ [][NextReading]_vars

\* The gesture is released in this step; the timeouts the step sets, and
\* the timeouts that run in it
Released == gesture # NoGesture /\ gesture' = NoGesture
Scheduled == timeouts' \ timeouts
Fired == timeouts \ timeouts'

\* C20: the release of a gesture schedules the deletion of its card iff the
\* gesture was committed as horizontal (first decisive movement with
\* |dx| > 10 and |dx| >= |dy|) and is released with |dx| > 120, and it
\* schedules the deletion of no other card; a card leaves the list only
\* when the timeout of such a release on it runs, 300 ms after the release,
\* and no other card leaves with it.
C20_SwipeDeletes ==
    [][/\ Released =>
             /\ (\E t \in Scheduled : t.id = gesture.id) <=> Qualifies(gesture)
             /\ \A t \in Scheduled : t.id = gesture.id
       /\ (\E i \in DOMAIN readings : \A j \in DOMAIN readings' : readings'[j] # readings[i]) =>
             \E t \in Fired :
                /\ t.qualified
                /\ t.elapsed = DismissDelay
                /\ readings' = SelectSeq(readings, LAMBDA r : r # t.id)]_vars

(***************************************************************************)
(* The grid bounds of src/unnamed/part_004                                 *)
(***************************************************************************)
\* The item lies within the rows of the grid
InGridBounds(item) == item.y >= 0 /\ item.h >= 1 /\ item.y + item.h <= MAX_ROWS

\* C21: in the grid of part_004, every layout item that handleLayoutChange
\* has written, of every breakpoint, and every item that addConstraints
\* makes of the saved or default layout satisfies y >= 0, h >= 1 and
\* y + h <= MAX_ROWS.
C21_SavedLayoutsInBounds ==
    grid = "v7" =>
       /\ \A bp \in DOMAIN savedLayouts : \A idx \in DOMAIN savedLayouts[bp] :
             InGridBounds(savedLayouts[bp][idx])
       /\ \A bp \in {"lg", "md"} :
             LET constrained == addConstraints(SavedOrDefault(savedLayouts, bp))
             IN  \A idx \in DOMAIN constrained : InGridBounds(constrained[idx])

(***************************************************************************)
(* The sync requests of src/src/App.tsx in flight                          *)
(***************************************************************************)
\* The loads and saves the page has started and whose continuation has yet
\* to run
InFlight == {i \in DOMAIN requests : requests[i].alive}

\* C22: at most one sync request is in flight at a time: while a load or a
\* save that the app has started has not completed, no second load or save
\* is started.
C22_OneRequestInFlight == Cardinality(InFlight) <= 1

====
